---- MODULE Spec2Model ----
(***************************************************************************)
(* A model of the dokku-dashboard data-source layer: the DokkuClient       *)
(* facade (src/app/dokku/client.py) and the request handlers that call it  *)
(* (src/app/routers/apps.py, config.py, logs.py).                          *)
(*                                                                         *)
(* Spec      one request at a time: a handler runs its facade calls, each  *)
(*           facade call issues its external invocations in order.         *)
(* SpecHost  the local data path: what the listing computes from the       *)
(*           containers and directories of a host.                         *)
(* SpecFaults the local listing on a host where the data of one           *)
(*           application cannot be read.                                   *)
(* SpecModels the display properties of the data models (models.py).       *)
(* SpecReports the parsers of the facade, each applied to a report.        *)
(* SpecQuote config_set and config_unset: the command composed, and what   *)
(*           the receiving side makes of it.                               *)
(***************************************************************************)
EXTENDS Integers, Sequences, FiniteSets, TLC

VARIABLES
    use_docker,     \* DokkuClient.use_docker = USE_DOCKER, fixed at import
    has_containers, \* whether `docker ps -aq` reports a container for the app
    handler,        \* the request handler being served, or "idle"
    stage,          \* index of the handler's current await
    task,           \* per facade operation: the coroutine's position
    response,       \* what the handler gave back to its caller
    used,           \* <<operation, channel kind>> of every invocation issued
    running_ext,    \* facade operations whose external process still runs
    producer,       \* log stream: the log process
    conn,           \* log stream: the SSH connection
    consumer,       \* log stream: the SSE consumer
    lines_sent,     \* log stream: lines yielded so far
    host,           \* what the host holds: containers, directories, files
    call,           \* the facade call whose data path is followed
    result          \* what that call computed

vars == <<use_docker, has_containers, handler, stage, task, response, used,
          running_ext, producer, conn, consumer, lines_sent, host, call, result>>

\* The request machine's variables, and the data-path variables.
req_vars == <<has_containers, handler, stage, task, response, used,
              running_ext, producer, conn, consumer, lines_sent>>
data_vars == <<host, call, result>>

-----------------------------------------------------------------------------
(* Bounds *)

MaxLines == 2

-----------------------------------------------------------------------------
(* The facade's external invocations.  ch is how the call is made:         *)
(*   "exec"      asyncio.create_subprocess_exec + proc.communicate()       *)
(*   "run"       DokkuClient.run: asyncssh connection + conn.run           *)
(*   "run_fast"  DokkuClient.run_fast: ssh subprocess, killed on timeout   *)
(* timeout is the asyncio.wait_for bound in seconds, 0 when there is none. *)

Inv(ch, cmd, timeout) == [ch |-> ch, cmd |-> cmd, timeout |-> timeout]

Kind(ch) == IF ch = "exec" THEN "local" ELSE "ssh"

Ops == {"apps_list", "app_status", "app_info", "get_all_apps",
        "app_start", "app_stop", "app_restart", "app_rebuild",
        "config_list", "config_set", "config_unset", "logs_recent",
        "logs_stream", "get_app_scaling", "get_app_network_config",
        "get_app_storage_mounts", "get_app_ssl_status",
        "get_app_health_checks"}

\* _get_container_names: docker ps -aq, communicate() without a timeout
ContainerNamesStep == Inv("exec", "docker ps -aq", 0)

\* _app_status_docker / _app_status_ssh
AppStatusSteps(docker) ==
    IF docker THEN <<Inv("exec", "docker ps -q status=running", 0)>>
    ELSE <<Inv("run", "ps:report", 30)>>

\* The invocations of each facade operation on each path, in program order.
Steps(op, docker) ==
    CASE op = "apps_list" -> <<Inv("run", "apps:list", 30)>>
      [] op = "app_status" -> AppStatusSteps(docker)
      [] op = "app_info" ->
            IF docker
            THEN AppStatusSteps(docker) \o <<Inv("exec", "docker ps -q", 0)>>
            ELSE AppStatusSteps(docker) \o
                 <<Inv("run", "domains:report", 30),
                   Inv("run", "ps:report", 30),
                   Inv("run", "git:report", 30)>>
      [] op = "get_all_apps" ->
            IF docker THEN <<Inv("exec", "docker ps -a", 0)>>
            ELSE <<Inv("run_fast", "apps:list", 10)>>
      [] op = "app_start" ->
            IF docker THEN <<ContainerNamesStep, Inv("exec", "docker start", 0)>>
            ELSE <<Inv("run", "ps:start", 60)>>
      [] op = "app_stop" ->
            IF docker THEN <<ContainerNamesStep, Inv("exec", "docker stop", 0)>>
            ELSE <<Inv("run", "ps:stop", 60)>>
      [] op = "app_restart" ->
            IF docker THEN <<ContainerNamesStep, Inv("exec", "docker restart", 0)>>
            ELSE <<Inv("run", "ps:restart", 120)>>
      [] op = "app_rebuild" ->
            IF docker THEN <<Inv("exec", "dokku ps:rebuild", 300)>>
            ELSE <<Inv("run", "ps:rebuild", 300)>>
      [] op = "config_list" ->
            IF docker THEN <<>>      \* reads /home/dokku/<app>/ENV
            ELSE <<Inv("run", "config:show", 30)>>
      [] op = "config_set" ->
            IF docker THEN <<Inv("exec", "dokku config:set", 120)>>
            ELSE <<Inv("run", "config:set", 120)>>
      [] op = "config_unset" ->
            IF docker THEN <<Inv("exec", "dokku config:unset", 120)>>
            ELSE <<Inv("run", "config:unset", 120)>>
      [] op = "logs_recent" ->
            IF docker THEN <<ContainerNamesStep, Inv("exec", "docker logs", 0)>>
            ELSE <<Inv("run", "logs", 30)>>
      [] op = "logs_stream" ->
            IF docker THEN <<ContainerNamesStep>> ELSE <<>>
      [] op = "get_app_scaling" -> <<Inv("exec", "dokku ps:scale", 0)>>
      [] op = "get_app_network_config" ->
            <<Inv("exec", "dokku network:report", 0),
              Inv("exec", "dokku proxy:report", 0)>>
      [] op = "get_app_storage_mounts" -> <<Inv("exec", "dokku storage:report", 0)>>
      [] op = "get_app_ssl_status" -> <<Inv("exec", "dokku letsencrypt:list", 0)>>
      [] op = "get_app_health_checks" -> <<Inv("exec", "dokku checks:report", 0)>>

\* _logs_recent_docker and _logs_stream_docker return after
\* _get_container_names when it names no container.
StopsWithoutContainers(op, docker) ==
    docker /\ op \in {"logs_recent", "logs_stream"}

-----------------------------------------------------------------------------
(* The request handlers: each is a sequence of awaits, and each await is   *)
(* one facade call or an asyncio.gather of several.                        *)

LifecycleHandlers == {"start_app", "stop_app", "restart_app", "rebuild_app"}
ConfigWriteHandlers == {"config_set", "config_unset"}

Handlers == LifecycleHandlers \cup ConfigWriteHandlers \cup
            {"list_apps", "app_detail", "app_card", "app_status",
             "config_list", "recent_logs", "stream_logs", "apps_list"}

DetailOps == {"app_info", "config_list", "get_app_scaling",
              "get_app_network_config", "get_app_storage_mounts",
              "get_app_ssl_status", "get_app_health_checks"}

\* A handler that gathers its control command together with the re-resolution.
HandlerStagesGathered(h) ==
    CASE h = "list_apps" -> <<{"get_all_apps"}>>
      [] h = "app_detail" -> <<DetailOps>>
      [] h = "start_app" -> <<{"app_start", "app_info", "get_app_ssl_status"}>>
      [] h = "stop_app" -> <<{"app_stop", "app_info", "get_app_ssl_status"}>>
      [] h = "restart_app" -> <<{"app_restart", "app_info", "get_app_ssl_status"}>>
      [] h = "rebuild_app" -> <<{"app_rebuild", "app_info"}>>
      [] h = "app_card" -> <<{"app_info"}>>
      [] h = "app_status" -> <<{"app_status"}>>
      [] h = "config_list" -> <<{"config_list"}>>
      [] h = "config_set" -> <<{"config_set"}, {"config_list"}>>
      [] h = "config_unset" -> <<{"config_unset"}, {"config_list"}>>
      [] h = "recent_logs" -> <<{"logs_recent"}>>
      [] h = "stream_logs" -> <<{"logs_stream"}>>
      [] h = "apps_list" -> <<{"apps_list"}>>

HandlerStages(h) ==
    CASE h = "list_apps" -> <<{"get_all_apps"}>>
      [] h = "app_detail" -> <<DetailOps>>
      [] h = "start_app" -> <<{"app_start"}, {"app_info", "get_app_ssl_status"}>>
      [] h = "stop_app" -> <<{"app_stop"}, {"app_info", "get_app_ssl_status"}>>
      [] h = "restart_app" -> <<{"app_restart"}, {"app_info", "get_app_ssl_status"}>>
      [] h = "rebuild_app" -> <<{"app_rebuild"}, {"app_info"}>>
      [] h = "app_card" -> <<{"app_info"}>>
      [] h = "app_status" -> <<{"app_status"}>>
      [] h = "config_list" -> <<{"config_list"}>>
      [] h = "config_set" -> <<{"config_set"}, {"config_list"}>>
      [] h = "config_unset" -> <<{"config_unset"}, {"config_list"}>>
      [] h = "recent_logs" -> <<{"logs_recent"}>>
      [] h = "stream_logs" -> <<{"logs_stream"}>>
      [] h = "apps_list" -> <<{"apps_list"}>>

\* The facade call a write handler makes to change the host.
ControlOp(h) ==
    CASE h = "start_app" -> "app_start"
      [] h = "stop_app" -> "app_stop"
      [] h = "restart_app" -> "app_restart"
      [] h = "rebuild_app" -> "app_rebuild"
      [] h = "config_set" -> "config_set"
      [] h = "config_unset" -> "config_unset"

\* The facade calls a lifecycle handler makes to re-resolve the application.
ResolveOps(h) ==
    IF h = "rebuild_app" THEN {"app_info"} ELSE {"app_info", "get_app_ssl_status"}

\* The message the handler puts in its template context.
SuccessMessage(h) ==
    CASE h = "config_set" -> "Set successfully"
      [] h = "config_unset" -> "Removed successfully"
      [] OTHER -> "none"

-----------------------------------------------------------------------------
(* State *)

IdleTask == [st |-> "idle", pc |-> 0, ch |-> "none", timeout |-> 0,
             ret |-> "none", exit |-> "none"]

NoResponse == [status |-> "none", message |-> "none"]

NoHost == [containers |-> <<>>, dirs |-> {}, vhost |-> <<>>, env |-> <<>>, faults |-> <<>>]
NoCall == [op |-> "none"]
NoResult == [op |-> "none"]

DataIdle ==
    /\ host = NoHost
    /\ call = NoCall
    /\ result = NoResult

ReqIdle ==
    /\ has_containers = FALSE
    /\ handler = "idle"
    /\ stage = 0
    /\ task = [t \in Ops |-> IdleTask]
    /\ response = NoResponse
    /\ used = {}
    /\ running_ext = {}
    /\ producer = "none"
    /\ conn = "none"
    /\ consumer = "none"
    /\ lines_sent = 0

Init ==
    /\ use_docker \in BOOLEAN
    /\ ReqIdle
    /\ DataIdle

StageOps == IF handler = "idle" \/ stage = 0 THEN {} ELSE HandlerStages(handler)[stage]

stream_vars == <<producer, conn, consumer, lines_sent>>

\* Only the log operations branch on whether the application has containers.
ContainerCases(h) ==
    IF h \in {"recent_logs", "stream_logs"} THEN BOOLEAN ELSE {TRUE}

\* A request arrives: DokkuClient() is constructed and the first await starts.
StartHandler(h, c) ==
    /\ handler = "idle"
    /\ handler' = h
    /\ has_containers' = c
    /\ stage' = 1
    /\ task' = [t \in Ops |-> IF t \in HandlerStages(h)[1]
                              THEN [IdleTask EXCEPT !.st = "ready"]
                              ELSE IdleTask]
    /\ consumer' = IF h = "stream_logs" THEN "reading" ELSE "none"
    /\ UNCHANGED <<use_docker, response, used, running_ext, producer, conn, lines_sent>>
    /\ UNCHANGED data_vars

\* The handler is still waiting on its current await and no coroutine of it has
\* raised: an exception goes to the handler before the other coroutines run on,
\* and the model follows a request up to the handler's answer.
Pending ==
    /\ response = NoResponse
    /\ \A u \in StageOps : task[u].st # "raised"

\* The steps left for task t.
Remaining(t) ==
    LET s == Steps(t, use_docker)
    IN  IF task[t].pc >= Len(s) THEN <<>>
        ELSE IF StopsWithoutContainers(t, use_docker) /\ task[t].pc >= 1
                /\ ~has_containers THEN <<>>
        ELSE SubSeq(s, task[t].pc + 1, Len(s))

\* The coroutine makes its next external call and suspends on it.
Issue(t) ==
    /\ Pending
    /\ task[t].st = "ready"
    /\ Remaining(t) # <<>>
    /\ LET s == Head(Remaining(t))
       IN  /\ task' = [task EXCEPT ![t].st = "awaiting", ![t].ch = s.ch,
                                   ![t].timeout = s.timeout]
           /\ used' = used \cup {<<t, Kind(s.ch)>>}
    /\ running_ext' = running_ext \cup {t}
    /\ UNCHANGED <<use_docker, has_containers, handler, stage, response, stream_vars>>
    /\ UNCHANGED data_vars

\* Operations whose command changes the host: their exit status is what a
\* caller would need to tell success from failure.
WriteOps == {"app_start", "app_stop", "app_restart", "app_rebuild",
             "config_set", "config_unset"}

\* Task t after its current call came back with output: the coroutine runs on
\* to its next call, or to its return statement when that was the last one.
AfterCall(t, ret, exit) ==
    LET last == Len(Remaining(t)) <= 1
                \/ (StopsWithoutContainers(t, use_docker) /\ ~has_containers)
    IN  [task EXCEPT ![t].st = IF last /\ t # "logs_stream" THEN "returned" ELSE "ready",
                     ![t].pc = @ + 1, ![t].ch = "none", ![t].timeout = 0,
                     ![t].ret = ret, ![t].exit = exit]

\* The external process or remote command ends, with exit status e.  Neither
\* run (check=False) nor communicate() looks at the status: the output comes back.
Respond(t, e) ==
    /\ Pending
    /\ task[t].st = "awaiting"
    /\ e = "zero" \/ t \in WriteOps
    /\ task' = AfterCall(t, "output", e)
    /\ running_ext' = running_ext \ {t}
    /\ UNCHANGED <<use_docker, has_containers, handler, stage, response, used, stream_vars>>
    /\ UNCHANGED data_vars

TimeoutArmed(t) == task[t].timeout > 0

\* asyncio.wait_for gives up.  run_fast kills the ssh process and returns "";
\* run lets TimeoutError out (the connection is closed by its context manager);
\* the local wait_for callers let TimeoutError out and leave the process.
OnTimeout(t) ==
    CASE task[t].ch = "run_fast" ->
            [AfterCall(t, "empty", "timeout") EXCEPT ![t].ch = "run_fast"]
      [] OTHER ->
            [task EXCEPT ![t].st = "raised", ![t].pc = 0,
                         ![t].timeout = 0, ![t].ret = "TimeoutError",
                         ![t].exit = "timeout"]

Timeout(t) ==
    /\ Pending
    /\ task[t].st = "awaiting"
    /\ TimeoutArmed(t)
    /\ task' = OnTimeout(t)
    /\ running_ext' = IF task[t].ch = "exec" THEN running_ext ELSE running_ext \ {t}
    /\ UNCHANGED <<use_docker, has_containers, handler, stage, response, used, stream_vars>>
    /\ UNCHANGED data_vars

\* The call cannot be made at all: asyncssh.connect is refused, or
\* create_subprocess_exec finds no executable.  The exception propagates.
Fail(t) ==
    /\ Pending
    /\ task[t].st = "ready"
    /\ Remaining(t) # <<>>
    /\ Head(Remaining(t)).ch \in {"run", "exec"}
    /\ task' = [task EXCEPT ![t].st = "raised", ![t].pc = 0, ![t].ret = "error"]
    /\ UNCHANGED <<use_docker, has_containers, handler, stage, response, used,
                   running_ext, stream_vars>>
    /\ UNCHANGED data_vars

\* The facade operation returns to its caller.
Return(t) ==
    /\ Pending
    /\ task[t].st = "ready"
    /\ Remaining(t) = <<>>
    /\ t # "logs_stream" \/ (use_docker /\ ~has_containers)
    /\ task' = [task EXCEPT ![t].st = "returned"]
    /\ UNCHANGED <<use_docker, has_containers, handler, stage, response, used,
                   running_ext, stream_vars>>
    /\ UNCHANGED data_vars

\* What the handler answers once its last await is over.
Answer(h) == [status |-> "ok", message |-> SuccessMessage(h)]

\* Every coroutine of the current await has returned: the handler goes on
\* to its next await, or renders its template.
StageDone ==
    /\ handler # "idle"
    /\ response = NoResponse
    /\ \A t \in StageOps : task[t].st = "returned"
    /\ IF stage < Len(HandlerStages(handler))
       THEN /\ stage' = stage + 1
            /\ task' = [t \in Ops |->
                          IF t \in HandlerStages(handler)[stage + 1]
                          THEN [IdleTask EXCEPT !.st = "ready"] ELSE task[t]]
            /\ UNCHANGED <<response, consumer>>
       ELSE /\ response' = Answer(handler)
            /\ consumer' = IF handler = "stream_logs" THEN "done" ELSE consumer
            /\ UNCHANGED <<stage, task>>
    /\ UNCHANGED <<use_docker, has_containers, handler, used, running_ext,
                   producer, conn, lines_sent>>
    /\ UNCHANGED data_vars

\* asyncio.gather without return_exceptions, and a plain await, hand the
\* first exception to the handler, which has no except clause that answers.
StageRaise ==
    /\ handler # "idle"
    /\ response = NoResponse
    /\ \E t \in StageOps : task[t].st = "raised"
    /\ response' = [status |-> "error", message |-> "none"]
    /\ consumer' = IF handler = "stream_logs" THEN "done" ELSE consumer
    /\ UNCHANGED <<use_docker, has_containers, handler, stage, task, used,
                   running_ext, producer, conn, lines_sent>>
    /\ UNCHANGED data_vars

\* The request is over; the next one starts from a fresh DokkuClient.
Reset ==
    /\ response # NoResponse
    /\ handler' = "idle"
    /\ has_containers' = FALSE
    /\ stage' = 0
    /\ task' = [t \in Ops |-> IdleTask]
    /\ response' = NoResponse
    /\ used' = {}
    /\ running_ext' = {}
    /\ producer' = "none"
    /\ conn' = "none"
    /\ consumer' = "none"
    /\ lines_sent' = 0
    /\ UNCHANGED use_docker
    /\ UNCHANGED data_vars

-----------------------------------------------------------------------------
(* The log stream: logs_stream is an async generator the SSE response reads. *)

\* The generator starts the log process: `docker logs -f` as a subprocess, or
\* a remote process inside `async with` blocks for connection and process.
StreamOpen ==
    /\ Pending
    /\ task["logs_stream"].st = "ready"
    /\ Remaining("logs_stream") = <<>>
    /\ use_docker => (task["logs_stream"].pc = 1 /\ has_containers)
    /\ task' = [task EXCEPT !["logs_stream"].st = "streaming"]
    /\ producer' = "running"
    /\ conn' = IF use_docker THEN conn ELSE "open"
    /\ used' = used \cup {<<"logs_stream", IF use_docker THEN "local" ELSE "ssh">>}
    /\ UNCHANGED <<use_docker, has_containers, handler, stage, response,
                   running_ext, consumer, lines_sent>>
    /\ UNCHANGED data_vars

\* One line is read from the process and yielded to the consumer.
StreamLine ==
    /\ task["logs_stream"].st = "streaming"
    /\ producer = "running"
    /\ consumer = "reading"
    /\ lines_sent < MaxLines
    /\ lines_sent' = lines_sent + 1
    /\ UNCHANGED <<use_docker, has_containers, handler, stage, task, response,
                   used, running_ext, producer, conn, consumer>>
    /\ UNCHANGED data_vars

\* The log process ends by itself: the read loop ends and the generator
\* returns, leaving the `async with` blocks on the remote path.
ProducerExit ==
    /\ task["logs_stream"].st = "streaming"
    /\ producer = "running"
    /\ producer' = "exited"
    /\ conn' = IF conn = "open" THEN "closed" ELSE conn
    /\ task' = [task EXCEPT !["logs_stream"].st = "returned"]
    /\ UNCHANGED <<use_docker, has_containers, handler, stage, response, used,
                   running_ext, consumer, lines_sent>>
    /\ UNCHANGED data_vars

\* What cancellation does to the log process and the connection.  On the
\* remote path the `async with` blocks close both as CancelledError passes;
\* _logs_stream_docker has no cleanup around its read loop.
OnCancel(docker) ==
    IF docker THEN [producer |-> producer, conn |-> conn]
    ELSE [producer |-> "terminated", conn |-> "closed"]

\* The consumer goes away before the process ends: the response cancels the
\* generator, and generate() swallows CancelledError.
ConsumerDisconnect ==
    /\ task["logs_stream"].st = "streaming"
    /\ consumer = "reading"
    /\ consumer' = "gone"
    /\ task' = [task EXCEPT !["logs_stream"].st = "cancelled"]
    /\ producer' = OnCancel(use_docker).producer
    /\ conn' = OnCancel(use_docker).conn
    /\ response' = [status |-> "closed", message |-> "none"]
    /\ UNCHANGED <<use_docker, has_containers, handler, stage, used,
                   running_ext, lines_sent>>
    /\ UNCHANGED data_vars

-----------------------------------------------------------------------------
Next ==
    \/ \E h \in Handlers : \E c \in ContainerCases(h) : StartHandler(h, c)
    \/ \E t \in Ops : Issue(t)
    \/ \E t \in Ops, e \in {"zero", "nonzero"} : Respond(t, e)
    \/ \E t \in Ops : Timeout(t)
    \/ \E t \in Ops : Fail(t)
    \/ \E t \in Ops : Return(t)
    \/ StageDone
    \/ StageRaise
    \/ StreamOpen
    \/ StreamLine
    \/ ProducerExit
    \/ ConsumerDisconnect
    \/ Reset

Spec == Init /\ [][Next]_vars

-----------------------------------------------------------------------------
(* Text.  A Python str is modelled as the sequence of its characters, so   *)
(* that splitting, stripping and searching behave as they do in the code.  *)

Whitespace == {" ", "\t", "\n", "\r"}

\* The characters of a string: an entry for each literal of the source,
\* each name, and each text the host or the platform supplies.
CharTable ==
    ("running" :>
           <<"r", "u", "n", "n", "i", "n", "g">>)
    @@ ("config:unset" :>
           <<"c", "o", "n", "f", "i", "g", ":", "u", "n", "s", "e", "t">>)
    @@ ("K Y" :>
           <<"K", " ", "Y">>)
    @@ ("0a1b2c3d4e5f" :>
           <<"0", "a", "1", "b", "2", "c", "3", "d", "4", "e", "5", "f">>)
    @@ ("6f7e8d9c0b1a" :>
           <<"6", "f", "7", "e", "8", "d", "9", "c", "0", "b", "1", "a">>)
    @@ ("start" :>
           <<"s", "t", "a", "r", "t">>)
    @@ ("stop" :>
           <<"s", "t", "o", "p">>)
    @@ ("restart" :>
           <<"r", "e", "s", "t", "a", "r", "t">>)
    @@ ("d," :>
           <<"d", ",">>)
    @@ ("-----> App name           Certificate Expiry        Time before expiry        Time before renewal" :>
           <<"-", "-", "-", "-", "-", ">", " ", "A", "p", "p", " ", "n",
               "a", "m", "e", " ", " ", " ", " ", " ", " ", " ", " ", " ",
               " ", " ", "C", "e", "r", "t", "i", "f", "i", "c", "a", "t",
               "e", " ", "E", "x", "p", "i", "r", "y", " ", " ", " ", " ",
               " ", " ", " ", " ", "T", "i", "m", "e", " ", "b", "e", "f",
               "o", "r", "e", " ", "e", "x", "p", "i", "r", "y", " ", " ",
               " ", " ", " ", " ", " ", " ", "T", "i", "m", "e", " ", "b",
               "e", "f", "o", "r", "e", " ", "r", "e", "n", "e", "w", "a",
               "l">>)
    @@ ("app-one                   2026-01-20 05:25:37       39d, 8h, 3m, 2s           9d, 8h, 3m, 2s" :>
           <<"a", "p", "p", "-", "o", "n", "e", " ", " ", " ", " ", " ",
               " ", " ", " ", " ", " ", " ", " ", " ", " ", " ", " ", " ",
               " ", " ", "2", "0", "2", "6", "-", "0", "1", "-", "2", "0",
               " ", "0", "5", ":", "2", "5", ":", "3", "7", " ", " ", " ",
               " ", " ", " ", " ", "3", "9", "d", ",", " ", "8", "h", ",",
               " ", "3", "m", ",", " ", "2", "s", " ", " ", " ", " ", " ",
               " ", " ", " ", " ", " ", " ", "9", "d", ",", " ", "8", "h",
               ",", " ", "3", "m", ",", " ", "2", "s">>)
    @@ ("app-one-staging           2026-03-01 10:00:00       79d, 1h, 2m, 3s           49d, 1h, 2m, 3s" :>
           <<"a", "p", "p", "-", "o", "n", "e", "-", "s", "t", "a", "g",
               "i", "n", "g", " ", " ", " ", " ", " ", " ", " ", " ", " ",
               " ", " ", "2", "0", "2", "6", "-", "0", "3", "-", "0", "1",
               " ", "1", "0", ":", "0", "0", ":", "0", "0", " ", " ", " ",
               " ", " ", " ", " ", "7", "9", "d", ",", " ", "1", "h", ",",
               " ", "2", "m", ",", " ", "3", "s", " ", " ", " ", " ", " ",
               " ", " ", " ", " ", " ", " ", "4", "9", "d", ",", " ", "1",
               "h", ",", " ", "2", "m", ",", " ", "3", "s">>)
    @@ ("app-one                   2026-01-20 05:25:37       soon" :>
           <<"a", "p", "p", "-", "o", "n", "e", " ", " ", " ", " ", " ",
               " ", " ", " ", " ", " ", " ", " ", " ", " ", " ", " ", " ",
               " ", " ", "2", "0", "2", "6", "-", "0", "1", "-", "2", "0",
               " ", "0", "5", ":", "2", "5", ":", "3", "7", " ", " ", " ",
               " ", " ", " ", " ", "s", "o", "o", "n">>)
    @@ ("0" :>
           <<"0">>)
    @@ ("2026-01-20 05:25:37" :>
           <<"2", "0", "2", "6", "-", "0", "1", "-", "2", "0", " ", "0",
               "5", ":", "2", "5", ":", "3", "7">>)
    @@ ("       Deployed:                      true" :>
           <<" ", " ", " ", " ", " ", " ", " ", "D", "e", "p", "l", "o",
               "y", "e", "d", ":", " ", " ", " ", " ", " ", " ", " ", " ",
               " ", " ", " ", " ", " ", " ", " ", " ", " ", " ", " ", " ",
               " ", " ", "t", "r", "u", "e">>)
    @@ ("       Processes:                     1" :>
           <<" ", " ", " ", " ", " ", " ", " ", "P", "r", "o", "c", "e",
               "s", "s", "e", "s", ":", " ", " ", " ", " ", " ", " ", " ",
               " ", " ", " ", " ", " ", " ", " ", " ", " ", " ", " ", " ",
               " ", " ", "1">>)
    @@ ("       Running:                       true" :>
           <<" ", " ", " ", " ", " ", " ", " ", "R", "u", "n", "n", "i",
               "n", "g", ":", " ", " ", " ", " ", " ", " ", " ", " ", " ",
               " ", " ", " ", " ", " ", " ", " ", " ", " ", " ", " ", " ",
               " ", " ", "t", "r", "u", "e">>)
    @@ ("       Running:                       false" :>
           <<" ", " ", " ", " ", " ", " ", " ", "R", "u", "n", "n", "i",
               "n", "g", ":", " ", " ", " ", " ", " ", " ", " ", " ", " ",
               " ", " ", " ", " ", " ", " ", " ", " ", " ", " ", " ", " ",
               " ", " ", "f", "a", "l", "s", "e">>)
    @@ ("       Status web 1:                  running (CID: 0a1)" :>
           <<" ", " ", " ", " ", " ", " ", " ", "S", "t", "a", "t", "u",
               "s", " ", "w", "e", "b", " ", "1", ":", " ", " ", " ", " ",
               " ", " ", " ", " ", " ", " ", " ", " ", " ", " ", " ", " ",
               " ", " ", "r", "u", "n", "n", "i", "n", "g", " ", "(", "C",
               "I", "D", ":", " ", "0", "a", "1", ")">>)
    @@ ("       Status web 1:                  exited (CID: 0a1)" :>
           <<" ", " ", " ", " ", " ", " ", " ", "S", "t", "a", "t", "u",
               "s", " ", "w", "e", "b", " ", "1", ":", " ", " ", " ", " ",
               " ", " ", " ", " ", " ", " ", " ", " ", " ", " ", " ", " ",
               " ", " ", "e", "x", "i", "t", "e", "d", " ", "(", "C", "I",
               "D", ":", " ", "0", "a", "1", ")">>)
    @@ ("       Status web 1:                  stopped (CID: 0a1)" :>
           <<" ", " ", " ", " ", " ", " ", " ", "S", "t", "a", "t", "u",
               "s", " ", "w", "e", "b", " ", "1", ":", " ", " ", " ", " ",
               " ", " ", " ", " ", " ", " ", " ", " ", " ", " ", " ", " ",
               " ", " ", "s", "t", "o", "p", "p", "e", "d", " ", "(", "C",
               "I", "D", ":", " ", "0", "a", "1", ")">>)
    @@ ("worker" :>
           <<"w", "o", "r", "k", "e", "r">>)
    @@ ("Checks disabled list:" :>
           <<"C", "h", "e", "c", "k", "s", " ", "d", "i", "s", "a", "b",
               "l", "e", "d", " ", "l", "i", "s", "t", ":">>)
    @@ ("Checks skipped list:" :>
           <<"C", "h", "e", "c", "k", "s", " ", "s", "k", "i", "p", "p",
               "e", "d", " ", "l", "i", "s", "t", ":">>)
    @@ ("wait to retire:" :>
           <<"w", "a", "i", "t", " ", "t", "o", " ", "r", "e", "t", "i",
               "r", "e", ":">>)
    @@ ("none" :>
           <<"n", "o", "n", "e">>)
    @@ ("true" :>
           <<"t", "r", "u", "e">>)
    @@ ("Network attach post deploy:" :>
           <<"N", "e", "t", "w", "o", "r", "k", " ", "a", "t", "t", "a",
               "c", "h", " ", "p", "o", "s", "t", " ", "d", "e", "p", "l",
               "o", "y", ":">>)
    @@ ("Network bind all interfaces:" :>
           <<"N", "e", "t", "w", "o", "r", "k", " ", "b", "i", "n", "d",
               " ", "a", "l", "l", " ", "i", "n", "t", "e", "r", "f", "a",
               "c", "e", "s", ":">>)
    @@ ("Network initial network:" :>
           <<"N", "e", "t", "w", "o", "r", "k", " ", "i", "n", "i", "t",
               "i", "a", "l", " ", "n", "e", "t", "w", "o", "r", "k", ":">>)
    @@ ("Proxy port map:" :>
           <<"P", "r", "o", "x", "y", " ", "p", "o", "r", "t", " ", "m",
               "a", "p", ":">>)
    @@ ("Storage build mounts:" :>
           <<"S", "t", "o", "r", "a", "g", "e", " ", "b", "u", "i", "l",
               "d", " ", "m", "o", "u", "n", "t", "s", ":">>)
    @@ ("Storage deploy mounts:" :>
           <<"S", "t", "o", "r", "a", "g", "e", " ", "d", "e", "p", "l",
               "o", "y", " ", "m", "o", "u", "n", "t", "s", ":">>)
    @@ ("Storage run mounts:" :>
           <<"S", "t", "o", "r", "a", "g", "e", " ", "r", "u", "n", " ",
               "m", "o", "u", "n", "t", "s", ":">>)
    @@ ("bind" :>
           <<"b", "i", "n", "d">>)
    @@ ("volume" :>
           <<"v", "o", "l", "u", "m", "e">>)
    @@ ("       Checks disabled list:         web worker" :>
           <<" ", " ", " ", " ", " ", " ", " ", "C", "h", "e", "c", "k",
               "s", " ", "d", "i", "s", "a", "b", "l", "e", "d", " ", "l",
               "i", "s", "t", ":", " ", " ", " ", " ", " ", " ", " ", " ",
               " ", "w", "e", "b", " ", "w", "o", "r", "k", "e", "r">>)
    @@ ("       Checks disabled list:         none" :>
           <<" ", " ", " ", " ", " ", " ", " ", "C", "h", "e", "c", "k",
               "s", " ", "d", "i", "s", "a", "b", "l", "e", "d", " ", "l",
               "i", "s", "t", ":", " ", " ", " ", " ", " ", " ", " ", " ",
               " ", "n", "o", "n", "e">>)
    @@ ("       Checks skipped list:          web" :>
           <<" ", " ", " ", " ", " ", " ", " ", "C", "h", "e", "c", "k",
               "s", " ", "s", "k", "i", "p", "p", "e", "d", " ", "l", "i",
               "s", "t", ":", " ", " ", " ", " ", " ", " ", " ", " ", " ",
               " ", "w", "e", "b">>)
    @@ ("       Checks wait to retire:        30" :>
           <<" ", " ", " ", " ", " ", " ", " ", "C", "h", "e", "c", "k",
               "s", " ", "w", "a", "i", "t", " ", "t", "o", " ", "r", "e",
               "t", "i", "r", "e", ":", " ", " ", " ", " ", " ", " ", " ",
               " ", "3", "0">>)
    @@ ("       Checks wait to retire:        soon" :>
           <<" ", " ", " ", " ", " ", " ", " ", "C", "h", "e", "c", "k",
               "s", " ", "w", "a", "i", "t", " ", "t", "o", " ", "r", "e",
               "t", "i", "r", "e", ":", " ", " ", " ", " ", " ", " ", " ",
               " ", "s", "o", "o", "n">>)
    @@ ("       Checks wait to retire:" :>
           <<" ", " ", " ", " ", " ", " ", " ", "C", "h", "e", "c", "k",
               "s", " ", "w", "a", "i", "t", " ", "t", "o", " ", "r", "e",
               "t", "i", "r", "e", ":">>)
    @@ ("       Network attach post deploy:   net-a net-b" :>
           <<" ", " ", " ", " ", " ", " ", " ", "N", "e", "t", "w", "o",
               "r", "k", " ", "a", "t", "t", "a", "c", "h", " ", "p", "o",
               "s", "t", " ", "d", "e", "p", "l", "o", "y", ":", " ", " ",
               " ", "n", "e", "t", "-", "a", " ", "n", "e", "t", "-", "b">>)
    @@ ("       Network attach post deploy:" :>
           <<" ", " ", " ", " ", " ", " ", " ", "N", "e", "t", "w", "o",
               "r", "k", " ", "a", "t", "t", "a", "c", "h", " ", "p", "o",
               "s", "t", " ", "d", "e", "p", "l", "o", "y", ":">>)
    @@ ("       Network bind all interfaces:  true" :>
           <<" ", " ", " ", " ", " ", " ", " ", "N", "e", "t", "w", "o",
               "r", "k", " ", "b", "i", "n", "d", " ", "a", "l", "l", " ",
               "i", "n", "t", "e", "r", "f", "a", "c", "e", "s", ":", " ",
               " ", "t", "r", "u", "e">>)
    @@ ("       Network bind all interfaces:  maybe" :>
           <<" ", " ", " ", " ", " ", " ", " ", "N", "e", "t", "w", "o",
               "r", "k", " ", "b", "i", "n", "d", " ", "a", "l", "l", " ",
               "i", "n", "t", "e", "r", "f", "a", "c", "e", "s", ":", " ",
               " ", "m", "a", "y", "b", "e">>)
    @@ ("       Network initial network:      bridge" :>
           <<" ", " ", " ", " ", " ", " ", " ", "N", "e", "t", "w", "o",
               "r", "k", " ", "i", "n", "i", "t", "i", "a", "l", " ", "n",
               "e", "t", "w", "o", "r", "k", ":", " ", " ", " ", " ", " ",
               " ", "b", "r", "i", "d", "g", "e">>)
    @@ ("       Network initial network:" :>
           <<" ", " ", " ", " ", " ", " ", " ", "N", "e", "t", "w", "o",
               "r", "k", " ", "i", "n", "i", "t", "i", "a", "l", " ", "n",
               "e", "t", "w", "o", "r", "k", ":">>)
    @@ ("       Proxy port map:               http:80:5000 https:443:5000" :>
           <<" ", " ", " ", " ", " ", " ", " ", "P", "r", "o", "x", "y",
               " ", "p", "o", "r", "t", " ", "m", "a", "p", ":", " ", " ",
               " ", " ", " ", " ", " ", " ", " ", " ", " ", " ", " ", " ",
               " ", "h", "t", "t", "p", ":", "8", "0", ":", "5", "0", "0",
               "0", " ", "h", "t", "t", "p", "s", ":", "4", "4", "3", ":",
               "5", "0", "0", "0">>)
    @@ ("       Proxy port map:" :>
           <<" ", " ", " ", " ", " ", " ", " ", "P", "r", "o", "x", "y",
               " ", "p", "o", "r", "t", " ", "m", "a", "p", ":">>)
    @@ ("       Storage build mounts:" :>
           <<" ", " ", " ", " ", " ", " ", " ", "S", "t", "o", "r", "a",
               "g", "e", " ", "b", "u", "i", "l", "d", " ", "m", "o", "u",
               "n", "t", "s", ":">>)
    @@ ("       Storage deploy mounts:        -v /var/lib/data:/data" :>
           <<" ", " ", " ", " ", " ", " ", " ", "S", "t", "o", "r", "a",
               "g", "e", " ", "d", "e", "p", "l", "o", "y", " ", "m", "o",
               "u", "n", "t", "s", ":", " ", " ", " ", " ", " ", " ", " ",
               " ", "-", "v", " ", "/", "v", "a", "r", "/", "l", "i", "b",
               "/", "d", "a", "t", "a", ":", "/", "d", "a", "t", "a">>)
    @@ ("       Storage run mounts:           -v /var/lib/data:/data -v cache:/cache" :>
           <<" ", " ", " ", " ", " ", " ", " ", "S", "t", "o", "r", "a",
               "g", "e", " ", "r", "u", "n", " ", "m", "o", "u", "n", "t",
               "s", ":", " ", " ", " ", " ", " ", " ", " ", " ", " ", " ",
               " ", "-", "v", " ", "/", "v", "a", "r", "/", "l", "i", "b",
               "/", "d", "a", "t", "a", ":", "/", "d", "a", "t", "a", " ",
               "-", "v", " ", "c", "a", "c", "h", "e", ":", "/", "c", "a",
               "c", "h", "e">>)
    @@ ("       Storage run mounts:           none" :>
           <<" ", " ", " ", " ", " ", " ", " ", "S", "t", "o", "r", "a",
               "g", "e", " ", "r", "u", "n", " ", "m", "o", "u", "n", "t",
               "s", ":", " ", " ", " ", " ", " ", " ", " ", " ", " ", " ",
               " ", "n", "o", "n", "e">>)
    @@ ("       Storage deploy mounts:        /broken" :>
           <<" ", " ", " ", " ", " ", " ", " ", "S", "t", "o", "r", "a",
               "g", "e", " ", "d", "e", "p", "l", "o", "y", " ", "m", "o",
               "u", "n", "t", "s", ":", " ", " ", " ", " ", " ", " ", " ",
               " ", "/", "b", "r", "o", "k", "e", "n">>)
    @@ ("-----> Scaling for app-one" :>
           <<"-", "-", "-", "-", "-", ">", " ", "S", "c", "a", "l", "i",
               "n", "g", " ", "f", "o", "r", " ", "a", "p", "p", "-", "o",
               "n", "e">>)
    @@ ("proctype: qty" :>
           <<"p", "r", "o", "c", "t", "y", "p", "e", ":", " ", "q", "t",
               "y">>)
    @@ ("--------: ---" :>
           <<"-", "-", "-", "-", "-", "-", "-", "-", ":", " ", "-", "-",
               "-">>)
    @@ ("web: 1" :>
           <<"w", "e", "b", ":", " ", "1">>)
    @@ ("worker:  0" :>
           <<"w", "o", "r", "k", "e", "r", ":", " ", " ", "0">>)
    @@ ("web: -1" :>
           <<"w", "e", "b", ":", " ", "-", "1">>)
    @@ ("web: 1: 2" :>
           <<"w", "e", "b", ":", " ", "1", ":", " ", "2">>)
    @@ ("release: 1_0" :>
           <<"r", "e", "l", "e", "a", "s", "e", ":", " ", "1", "_", "0">>)
    @@ ("---" :>
           <<"-", "-", "-">>)
    @@ ("===" :>
           <<"=", "=", "=">>)
    @@ ("web" :>
           <<"w", "e", "b">>)
    @@ ("one.example.com" :>
           <<"o", "n", "e", ".", "e", "x", "a", "m", "p", "l", "e", ".",
               "c", "o", "m">>)
    @@ ("www.example.com" :>
           <<"w", "w", "w", ".", "e", "x", "a", "m", "p", "l", "e", ".",
               "c", "o", "m">>)
    @@ ("   Domains app vhosts: one.example.com www.example.com" :>
           <<" ", " ", " ", "D", "o", "m", "a", "i", "n", "s", " ", "a",
               "p", "p", " ", "v", "h", "o", "s", "t", "s", ":", " ", "o",
               "n", "e", ".", "e", "x", "a", "m", "p", "l", "e", ".", "c",
               "o", "m", " ", "w", "w", "w", ".", "e", "x", "a", "m", "p",
               "l", "e", ".", "c", "o", "m">>)
    @@ ("   Domains app vhosts:   two.example.com" :>
           <<" ", " ", " ", "D", "o", "m", "a", "i", "n", "s", " ", "a",
               "p", "p", " ", "v", "h", "o", "s", "t", "s", ":", " ", " ",
               " ", "t", "w", "o", ".", "e", "x", "a", "m", "p", "l", "e",
               ".", "c", "o", "m">>)
    @@ ("   Domains app vhosts:" :>
           <<" ", " ", " ", "D", "o", "m", "a", "i", "n", "s", " ", "a",
               "p", "p", " ", "v", "h", "o", "s", "t", "s", ":">>)
    @@ ("   Domains app vhosts: http://one.example.com" :>
           <<" ", " ", " ", "D", "o", "m", "a", "i", "n", "s", " ", "a",
               "p", "p", " ", "v", "h", "o", "s", "t", "s", ":", " ", "h",
               "t", "t", "p", ":", "/", "/", "o", "n", "e", ".", "e", "x",
               "a", "m", "p", "l", "e", ".", "c", "o", "m">>)
    @@ ("   Domains app enabled: true" :>
           <<" ", " ", " ", "D", "o", "m", "a", "i", "n", "s", " ", "a",
               "p", "p", " ", "e", "n", "a", "b", "l", "e", "d", ":", " ",
               "t", "r", "u", "e">>)
    @@ ("   Domains app vho" :>
           <<" ", " ", " ", "D", "o", "m", "a", "i", "n", "s", " ", "a",
               "p", "p", " ", "v", "h", "o">>)
    @@ ("=====> app-one domains information" :>
           <<"=", "=", "=", "=", "=", ">", " ", "a", "p", "p", "-", "o",
               "n", "e", " ", "d", "o", "m", "a", "i", "n", "s", " ", "i",
               "n", "f", "o", "r", "m", "a", "t", "i", "o", "n">>)
    @@ ("stopped" :>
           <<"s", "t", "o", "p", "p", "e", "d">>)
    @@ ("crashed" :>
           <<"c", "r", "a", "s", "h", "e", "d">>)
    @@ ("exited" :>
           <<"e", "x", "i", "t", "e", "d">>)
    @@ ("Domains app vhosts:" :>
           <<"D", "o", "m", "a", "i", "n", "s", " ", "a", "p", "p", " ",
               "v", "h", "o", "s", "t", "s", ":">>)
    @@ ("Processes:" :>
           <<"P", "r", "o", "c", "e", "s", "s", "e", "s", ":">>)
    @@ ("Running:" :>
           <<"R", "u", "n", "n", "i", "n", "g", ":">>)
    @@ ("Git deploy branch:" :>
           <<"G", "i", "t", " ", "d", "e", "p", "l", "o", "y", " ", "b",
               "r", "a", "n", "c", "h", ":">>)
    @@ ("unknown" :>
           <<"u", "n", "k", "n", "o", "w", "n">>)
    @@ ("====" :>
           <<"=", "=", "=", "=">>)
    @@ ("docker" :>
           <<"d", "o", "c", "k", "e", "r">>)
    @@ ("https://" :>
           <<"h", "t", "t", "p", "s", ":", "/", "/">>)
    @@ ("My Apps\n" :>
           <<"M", "y", " ", "A", "p", "p", "s", "\n">>)
    @@ (".brewbytes.dev" :>
           <<".", "b", "r", "e", "w", "b", "y", "t", "e", "s", ".", "d",
               "e", "v">>)
    @@ (" !     App " :>
           <<" ", "!", " ", " ", " ", " ", " ", "A", "p", "p", " ">>)
    @@ (" does not exist\n" :>
           <<" ", "d", "o", "e", "s", " ", "n", "o", "t", " ", "e", "x",
               "i", "s", "t", "\n">>)
    @@ ("=====> " :>
           <<"=", "=", "=", "=", "=", ">", " ">>)
    @@ (" ps information\n   Deployed: true\n   Processes: 1\n   Running: true\n   Status web 1: running (CID: 0a1)\n" :>
           <<" ", "p", "s", " ", "i", "n", "f", "o", "r", "m", "a", "t",
               "i", "o", "n", "\n", " ", " ", " ", "D", "e", "p", "l", "o",
               "y", "e", "d", ":", " ", "t", "r", "u", "e", "\n", " ", " ",
               " ", "P", "r", "o", "c", "e", "s", "s", "e", "s", ":", " ",
               "1", "\n", " ", " ", " ", "R", "u", "n", "n", "i", "n", "g",
               ":", " ", "t", "r", "u", "e", "\n", " ", " ", " ", "S", "t",
               "a", "t", "u", "s", " ", "w", "e", "b", " ", "1", ":", " ",
               "r", "u", "n", "n", "i", "n", "g", " ", "(", "C", "I", "D",
               ":", " ", "0", "a", "1", ")", "\n">>)
    @@ (" ps information\n   Deployed: true\n   Processes: 2\n   Running: false\n   Status web 1: exited (CID: 0a1)\n" :>
           <<" ", "p", "s", " ", "i", "n", "f", "o", "r", "m", "a", "t",
               "i", "o", "n", "\n", " ", " ", " ", "D", "e", "p", "l", "o",
               "y", "e", "d", ":", " ", "t", "r", "u", "e", "\n", " ", " ",
               " ", "P", "r", "o", "c", "e", "s", "s", "e", "s", ":", " ",
               "2", "\n", " ", " ", " ", "R", "u", "n", "n", "i", "n", "g",
               ":", " ", "f", "a", "l", "s", "e", "\n", " ", " ", " ", "S",
               "t", "a", "t", "u", "s", " ", "w", "e", "b", " ", "1", ":",
               " ", "e", "x", "i", "t", "e", "d", " ", "(", "C", "I", "D",
               ":", " ", "0", "a", "1", ")", "\n">>)
    @@ (" ps information\n   Deployed: false\n   Processes: 0\n" :>
           <<" ", "p", "s", " ", "i", "n", "f", "o", "r", "m", "a", "t",
               "i", "o", "n", "\n", " ", " ", " ", "D", "e", "p", "l", "o",
               "y", "e", "d", ":", " ", "f", "a", "l", "s", "e", "\n", " ",
               " ", " ", "P", "r", "o", "c", "e", "s", "s", "e", "s", ":",
               " ", "0", "\n">>)
    @@ (" domains information\n   Domains app enabled: true\n   Domains app vhosts: one.example.com www.example.com\n   Domains global vhosts:\n" :>
           <<" ", "d", "o", "m", "a", "i", "n", "s", " ", "i", "n", "f",
               "o", "r", "m", "a", "t", "i", "o", "n", "\n", " ", " ", " ",
               "D", "o", "m", "a", "i", "n", "s", " ", "a", "p", "p", " ",
               "e", "n", "a", "b", "l", "e", "d", ":", " ", "t", "r", "u",
               "e", "\n", " ", " ", " ", "D", "o", "m", "a", "i", "n", "s",
               " ", "a", "p", "p", " ", "v", "h", "o", "s", "t", "s", ":",
               " ", "o", "n", "e", ".", "e", "x", "a", "m", "p", "l", "e",
               ".", "c", "o", "m", " ", "w", "w", "w", ".", "e", "x", "a",
               "m", "p", "l", "e", ".", "c", "o", "m", "\n", " ", " ", " ",
               "D", "o", "m", "a", "i", "n", "s", " ", "g", "l", "o", "b",
               "a", "l", " ", "v", "h", "o", "s", "t", "s", ":", "\n">>)
    @@ (" domains information\n   Domains app enabled: false\n   Domains app vhosts:\n" :>
           <<" ", "d", "o", "m", "a", "i", "n", "s", " ", "i", "n", "f",
               "o", "r", "m", "a", "t", "i", "o", "n", "\n", " ", " ", " ",
               "D", "o", "m", "a", "i", "n", "s", " ", "a", "p", "p", " ",
               "e", "n", "a", "b", "l", "e", "d", ":", " ", "f", "a", "l",
               "s", "e", "\n", " ", " ", " ", "D", "o", "m", "a", "i", "n",
               "s", " ", "a", "p", "p", " ", "v", "h", "o", "s", "t", "s",
               ":", "\n">>)
    @@ (" git information\n   Git deploy branch: main\n   Git rev env var: GIT_REV\n" :>
           <<" ", "g", "i", "t", " ", "i", "n", "f", "o", "r", "m", "a",
               "t", "i", "o", "n", "\n", " ", " ", " ", "G", "i", "t", " ",
               "d", "e", "p", "l", "o", "y", " ", "b", "r", "a", "n", "c",
               "h", ":", " ", "m", "a", "i", "n", "\n", " ", " ", " ", "G",
               "i", "t", " ", "r", "e", "v", " ", "e", "n", "v", " ", "v",
               "a", "r", ":", " ", "G", "I", "T", "_", "R", "E", "V", "\n">>)
    @@ (" env vars\nPORT:       5000\nAPI_TOKEN:  t0k\n" :>
           <<" ", "e", "n", "v", " ", "v", "a", "r", "s", "\n", "P", "O",
               "R", "T", ":", " ", " ", " ", " ", " ", " ", " ", "5", "0",
               "0", "0", "\n", "A", "P", "I", "_", "T", "O", "K", "E", "N",
               ":", " ", " ", "t", "0", "k", "\n">>)
    @@ (" env vars\n" :>
           <<" ", "e", "n", "v", " ", "v", "a", "r", "s", "\n">>)
    @@ (" env vars\nORIGINS:    https://a.example\nhttps://b.example\nhttps://c.example\nPORT:       5000\n" :>
           <<" ", "e", "n", "v", " ", "v", "a", "r", "s", "\n", "O", "R",
               "I", "G", "I", "N", "S", ":", " ", " ", " ", " ", "h", "t",
               "t", "p", "s", ":", "/", "/", "a", ".", "e", "x", "a", "m",
               "p", "l", "e", "\n", "h", "t", "t", "p", "s", ":", "/", "/",
               "b", ".", "e", "x", "a", "m", "p", "l", "e", "\n", "h", "t",
               "t", "p", "s", ":", "/", "/", "c", ".", "e", "x", "a", "m",
               "p", "l", "e", "\n", "P", "O", "R", "T", ":", " ", " ", " ",
               " ", " ", " ", " ", "5", "0", "0", "0", "\n">>)
    @@ ("one.example.com\n" :>
           <<"o", "n", "e", ".", "e", "x", "a", "m", "p", "l", "e", ".",
               "c", "o", "m", "\n">>)
    @@ ("www.example.com\n" :>
           <<"w", "w", "w", ".", "e", "x", "a", "m", "p", "l", "e", ".",
               "c", "o", "m", "\n">>)
    @@ ("# managed\n" :>
           <<"#", " ", "m", "a", "n", "a", "g", "e", "d", "\n">>)
    @@ ("PORT=5000\n" :>
           <<"P", "O", "R", "T", "=", "5", "0", "0", "0", "\n">>)
    @@ ("API_TOKEN=\"t0k\"\n" :>
           <<"A", "P", "I", "_", "T", "O", "K", "E", "N", "=", "\"", "t",
               "0", "k", "\"", "\n">>)
    @@ ("PORT=8080\n" :>
           <<"P", "O", "R", "T", "=", "8", "0", "8", "0", "\n">>)
    @@ ("app-one" :>
           <<"a", "p", "p", "-", "o", "n", "e">>)
    @@ ("app-two" :>
           <<"a", "p", "p", "-", "t", "w", "o">>)
    @@ ("ghost" :>
           <<"g", "h", "o", "s", "t">>)
    @@ ("config:set" :>
           <<"c", "o", "n", "f", "i", "g", ":", "s", "e", "t">>)
    @@ ("--no-restart" :>
           <<"-", "-", "n", "o", "-", "r", "e", "s", "t", "a", "r", "t">>)
    @@ ("dokku" :>
           <<"d", "o", "k", "k", "u">>)
    @@ ("'\"'\"'" :>
           <<"'", "\"", "'", "\"", "'">>)
    @@ ("app" :>
           <<"a", "p", "p">>)
    @@ ("KEY" :>
           <<"K", "E", "Y">>)
    @@ (".cache" :>
           <<".", "c", "a", "c", "h", "e">>)
    @@ (".ssh" :>
           <<".", "s", "s", "h">>)
    @@ ("ENV" :>
           <<"E", "N", "V">>)
    @@ ("VERSION" :>
           <<"V", "E", "R", "S", "I", "O", "N">>)
    @@ ("VHOST" :>
           <<"V", "H", "O", "S", "T">>)
    @@ ("dokkurc" :>
           <<"d", "o", "k", "k", "u", "r", "c">>)
    @@ ("tls" :>
           <<"t", "l", "s">>)

Chars(s) == CharTable[s]

\* s.lstrip(chars), s.rstrip(chars), s.strip(chars)
LStrip(s, cs) ==
    LET kept == {i \in 1..Len(s) : s[i] \notin cs}
    IN  IF kept = {} THEN <<>>
        ELSE SubSeq(s, CHOOSE i \in kept : \A j \in kept : i <= j, Len(s))

RStrip(s, cs) ==
    LET kept == {i \in 1..Len(s) : s[i] \notin cs}
    IN  IF kept = {} THEN <<>>
        ELSE SubSeq(s, 1, CHOOSE i \in kept : \A j \in kept : j <= i)

StripChars(s, cs) == RStrip(LStrip(s, cs), cs)

\* s.strip()
Strip(s) == StripChars(s, Whitespace)

\* Index of the first c in s, 0 when there is none.
Find(s, c) ==
    IF \E i \in 1..Len(s) : s[i] = c
    THEN CHOOSE i \in 1..Len(s) : s[i] = c /\ \A j \in 1..(i - 1) : s[j] # c
    ELSE 0

\* s.startswith(p)
StartsWith(s, p) == Len(s) >= Len(p) /\ SubSeq(s, 1, Len(p)) = p

\* sub in s
Contains(s, sub) ==
    \E i \in 0..(Len(s) - Len(sub)) : SubSeq(s, i + 1, i + Len(sub)) = sub

\* s.split(c)
RECURSIVE SplitOn(_, _)
SplitOn(s, c) ==
    LET i == Find(s, c)
    IN  IF i = 0 THEN <<s>>
        ELSE <<SubSeq(s, 1, i - 1)>> \o SplitOn(SubSeq(s, i + 1, Len(s)), c)

\* s.split(c, 1)
SplitFirst(s, c) ==
    LET i == Find(s, c)
    IN  IF i = 0 THEN <<s>>
        ELSE <<SubSeq(s, 1, i - 1), SubSeq(s, i + 1, Len(s))>>

\* s.partition(c): <<before, after>>, the separator left out.
Partition(s, c) ==
    LET i == Find(s, c)
    IN  IF i = 0 THEN <<s, <<>>>>
        ELSE <<SubSeq(s, 1, i - 1), SubSeq(s, i + 1, Len(s))>>

\* s.replace(c, by), for a one-character c.
RECURSIVE Replace(_, _, _)
Replace(s, c, by) ==
    IF s = <<>> THEN <<>>
    ELSE (IF Head(s) = c THEN by ELSE <<Head(s)>>) \o Replace(Tail(s), c, by)

\* The concatenation of a sequence of strings, sep between them.
RECURSIVE Join(_, _)
Join(parts, sep) ==
    IF parts = <<>> THEN <<>>
    ELSE IF Len(parts) = 1 THEN parts[1]
    ELSE parts[1] \o sep \o Join(Tail(parts), sep)

\* The letters, upper and lower case, position by position.
UpperLetters ==
    <<"A", "B", "C", "D", "E", "F", "G", "H", "I", "J", "K", "L", "M", "N", "O",
      "P", "Q", "R", "S", "T", "U", "V", "W", "X", "Y", "Z">>

LowerLetters ==
    <<"a", "b", "c", "d", "e", "f", "g", "h", "i", "j", "k", "l", "m", "n", "o",
      "p", "q", "r", "s", "t", "u", "v", "w", "x", "y", "z">>

\* s.lower()
Lower(s) ==
    [i \in 1..Len(s) |->
        IF \E k \in 1..Len(UpperLetters) : UpperLetters[k] = s[i]
        THEN LowerLetters[CHOOSE k \in 1..Len(UpperLetters) : UpperLetters[k] = s[i]]
        ELSE s[i]]

\* s.split(): the maximal runs of characters that are not whitespace.
Words(s) ==
    LET n == Len(s)
        starts == {i \in 1..n : s[i] \notin Whitespace
                                 /\ (i = 1 \/ s[i - 1] \in Whitespace)}
        EndOf(i) == CHOOSE j \in i..n :
                        /\ \A k \in i..j : s[k] \notin Whitespace
                        /\ (j = n \/ s[j + 1] \in Whitespace)
        Nth(k) == CHOOSE i \in starts : Cardinality({j \in starts : j < i}) = k - 1
    IN  [k \in 1..Cardinality(starts) |-> SubSeq(s, Nth(k), EndOf(Nth(k)))]

Digits == <<"0", "1", "2", "3", "4", "5", "6", "7", "8", "9">>

IsDigit(c) == \E d \in 1..Len(Digits) : Digits[d] = c

DigitValue(c) == (CHOOSE d \in 1..Len(Digits) : Digits[d] = c) - 1

\* int(text) of a run of digits.
RECURSIVE ToInt(_)
ToInt(ds) ==
    IF ds = <<>> THEN 0
    ELSE ToInt(SubSeq(ds, 1, Len(ds) - 1)) * 10 + DigitValue(ds[Len(ds)])

\* re.search(r"(\d+)", s): the first maximal run of digits, <<>> when none.
FirstDigits(s) ==
    LET n == Len(s)
        at == {i \in 1..n : IsDigit(s[i])}
    IN  IF at = {} THEN <<>>
        ELSE LET i == CHOOSE a \in at : \A b \in at : a <= b
                 j == CHOOSE e \in i..n :
                          /\ \A k \in i..e : IsDigit(s[k])
                          /\ (e = n \/ ~IsDigit(s[e + 1]))
             IN  SubSeq(s, i, j)

\* The characters of keys, in code point order.
CharOrder ==
    <<" ", "#", "-", ".", "0", "1", "2", "3", "4", "5", "6", "7", "8", "9", ":", "=">>
        \o UpperLetters \o <<"_">> \o LowerLetters

CodePoint(c) == CHOOSE i \in 1..Len(CharOrder) : CharOrder[i] = c

\* a < b for two strings, as Python compares them.
StrLess(a, b) ==
    \/ Len(a) < Len(b) /\ SubSeq(b, 1, Len(a)) = a
    \/ \E i \in 1..(IF Len(a) < Len(b) THEN Len(a) ELSE Len(b)) :
            /\ SubSeq(a, 1, i - 1) = SubSeq(b, 1, i - 1)
            /\ CodePoint(a[i]) < CodePoint(b[i])

-----------------------------------------------------------------------------
(* The local data path (SpecHost): the container runtime's report and the  *)
(* directories under /home/dokku, and what the facade computes from them.  *)

MaxContainers == 2

AppNames == {"app-one", "app-two"}

\* The states `docker ps --format {{.State}}` prints.
DockerStates == {"created", "restarting", "running", "removing", "paused",
                 "exited", "dead"}

\* The {{.Status}} text the runtime prints for a container in a state.
StatusText(state) ==
    CASE state = "created" -> "Created"
      [] state = "restarting" -> "Restarting (1) 5 seconds ago"
      [] state = "running" -> "Up 2 hours"
      [] state = "removing" -> "Removal In Progress"
      [] state = "paused" -> "Up 2 hours (Paused)"
      [] state = "exited" -> "Exited (0) 2 hours ago"
      [] state = "dead" -> "Dead"

\* "restarting" in text.lower(), for the texts above.
MentionsRestarting(text) ==
    text \in {"restarting", "Restarting (1) 5 seconds ago"}

\* One line of `docker ps -a`, after json.loads.
PsLine(c) == [name |-> c.name, state |-> c.state, status |-> StatusText(c.state)]

\* The state a report line stands for: transitional states are detected first.
LineState(line) ==
    IF MentionsRestarting(line.state) \/ MentionsRestarting(line.status)
    THEN "restarting"
    ELSE IF line.state = "created" THEN "starting"
    ELSE line.state

\* app_status after one more line: the first line of an application sets its
\* entry, a later one replaces it only by restarting, starting or running.
Merge(app_status, line) ==
    LET name == line.name
        state == LineState(line)
    IN  IF name \notin DOMAIN app_status THEN app_status @@ (name :> state)
        ELSE IF state = "restarting" THEN [app_status EXCEPT ![name] = state]
        ELSE IF state = "starting" /\ app_status[name] \notin {"restarting"}
             THEN [app_status EXCEPT ![name] = state]
        ELSE IF state = "running" /\ app_status[name] \notin {"restarting", "starting"}
             THEN [app_status EXCEPT ![name] = state]
        ELSE app_status

\* The loop over the report lines.
RECURSIVE ParseContainers(_, _)
ParseContainers(lines, app_status) ==
    IF lines = <<>> THEN app_status
    ELSE ParseContainers(Tail(lines), Merge(app_status, PsLine(Head(lines))))

\* The AppStatus a status string maps to.
ToAppStatus(status_str) ==
    CASE status_str = "running" -> "RUNNING"
      [] status_str = "restarting" -> "RESTARTING"
      [] status_str = "starting" -> "STARTING"
      [] status_str \in {"exited", "dead", "stopped"} -> "STOPPED"
      [] OTHER -> "UNKNOWN"

skip_dirs == {"ENV", "VHOST", "tls", "dokkurc", ".basher", ".cache", ".config",
              ".ssh", ".local"}

\* Directory entries a host may hold, in the order sorted() puts them.
NameOrder == <<".cache", ".ssh", "ENV", "VERSION", "VHOST", "app-one", "app-two",
               "dokkurc", "ghost", "tls">>

StartsWithDot(name) == name \in {".ssh", ".basher", ".cache", ".config", ".local"}

Rank(name) == CHOOSE i \in 1..Len(NameOrder) : NameOrder[i] = name

\* sorted(apps, key=name, reverse=True)
RECURSIVE SortedNamesDescending(_)
SortedNamesDescending(names) ==
    IF names = {} THEN <<>>
    ELSE LET first == CHOOSE n \in names : \A m \in names : Rank(m) <= Rank(n)
         IN  <<first>> \o SortedNamesDescending(names \ {first})

\* sorted(apps, key=name) of a set of names that are all different.
RECURSIVE SortedNames(_)
SortedNames(names) ==
    IF names = {} THEN <<>>
    ELSE LET first == CHOOSE n \in names : \A m \in names : Rank(n) <= Rank(m)
         IN  <<first>> \o SortedNames(names \ {first})

\* What stands in the way of reading an application's data on a host:
\* "json" when the runtime prints its container lines in a form json.loads
\* rejects, "oserror" when opening its VHOST file is refused, "unicode" when
\* the bytes of its VHOST file are no text; "none" otherwise.
FaultOf(h, name) == IF name \in DOMAIN h.faults THEN h.faults[name] ELSE "none"

\* [line.strip() for line in f if line.strip()] over the VHOST file of an
\* application, [] when the file cannot be opened.
Domains(h, name) ==
    IF name \in DOMAIN h.vhost /\ FaultOf(h, name) # "oserror"
    THEN LET stripped == [i \in 1..Len(h.vhost[name]) |-> Strip(h.vhost[name][i])]
         IN  SelectSeq(stripped, LAMBDA line : line # <<>>)
    ELSE <<>>

\* f"https://{domains[0]}" if domains else ""
WebUrl(domains) == IF domains # <<>> THEN Chars("https://") \o domains[1] ELSE <<>>

\* The App the listing builds for one directory entry.
ListedApp(h, app_status, name) ==
    LET status_str == IF name \in DOMAIN app_status THEN app_status[name] ELSE "stopped"
        domains == Domains(h, name)
    IN  [name |-> name, status |-> ToAppStatus(status_str), container_count |-> 0,
         domains |-> domains, deploy_source |-> <<>>, web_url |-> WebUrl(domains)]

\* _get_apps_from_docker
GetAppsFromDocker(h) ==
    LET decoded == SelectSeq(h.containers, LAMBDA c : FaultOf(h, c.name) # "json")
        app_status == ParseContainers(decoded, <<>>)
        listed == {n \in h.dirs : ~(StartsWithDot(n) \/ n \in skip_dirs)}
        order == SortedNames(listed)
    IN  [i \in 1..Len(order) |-> ListedApp(h, app_status, order[i])]

\* Sequences over S of length at most n.
SeqsUpTo(S, n) == UNION {[1..k -> S] : k \in 0..n}

Containers == [name : AppNames, state : DockerStates]

\* The files under /home/dokku of the applications a host has: the first
\* application has a VHOST file and an ENV file; the second has no VHOST
\* file, and an ENV file in which PORT was appended a second time by hand.
VhostFiles(dirs) ==
    IF "app-one" \in dirs
    THEN ("app-one" :> <<Chars("one.example.com\n"), <<"\n">>, Chars("www.example.com\n")>>)
    ELSE <<>>

EnvFiles(dirs) ==
    (IF "app-one" \in dirs
     THEN ("app-one" :> <<Chars("# managed\n"), <<"\n">>, Chars("PORT=5000\n"),
                          Chars("API_TOKEN=\"t0k\"\n")>>)
     ELSE <<>>)
    @@ (IF "app-two" \in dirs
        THEN ("app-two" :> <<Chars("PORT=5000\n"), Chars("API_TOKEN=\"t0k\"\n"),
                             Chars("PORT=8080\n")>>)
        ELSE <<>>)

\* Hosts: any report of at most MaxContainers containers; the directory of
\* the first application beside reserved entries, or the directories of both
\* beside other reserved entries and the platform's VERSION file.
Hosts ==
    {[containers |-> containers, dirs |-> dirs,
      vhost |-> VhostFiles(dirs), env |-> EnvFiles(dirs), faults |-> <<>>] :
        containers \in SeqsUpTo(Containers, MaxContainers),
        dirs \in {{".ssh", "ENV", "app-one"},
                  {".cache", "VHOST", "tls", "dokkurc", "app-two", "app-one", "VERSION"}}}

\* Every container belongs to an application that has its directory.  The
\* remote path never looks at the local runtime: its hosts are taken without
\* containers.
InitHost ==
    /\ use_docker \in BOOLEAN
    /\ ReqIdle
    /\ host \in Hosts
    /\ \A i \in 1..Len(host.containers) : host.containers[i].name \in host.dirs
    /\ ~use_docker => host.containers = <<>>
    /\ call = NoCall
    /\ result = NoResult

\* The names an operation may be asked about: the applications, and one
\* that no host has.
QueryNames == AppNames \cup {"ghost"}

\* The characters of a name.
NameChars(n) == Chars(n)

\* `docker ps -q --filter label=com.dokku.app-name=<app_name>`, with or
\* without `--filter status=running`: one line per matching container.
PsQuiet(h, app_name, running_only) ==
    SelectSeq(h.containers,
              LAMBDA c : c.name = app_name /\ (running_only => c.state = "running"))

\* _app_status_docker without `--filter status=running`: any container counts.
AppStatusDockerAnyContainer(h, app_name) ==
    IF PsQuiet(h, app_name, FALSE) # <<>> THEN "RUNNING" ELSE "STOPPED"

\* _app_status_docker
AppStatusDocker(h, app_name) ==
    IF PsQuiet(h, app_name, TRUE) # <<>> THEN "RUNNING" ELSE "STOPPED"

\* _app_info_docker
AppInfoDocker(h, app_name) ==
    LET status == AppStatusDocker(h, app_name)
        domains == Domains(h, app_name)
        container_count == Len(PsQuiet(h, app_name, FALSE))
    IN  [name |-> app_name, status |-> status, container_count |-> container_count,
         domains |-> domains, deploy_source |-> Chars("docker"),
         web_url |-> WebUrl(domains)]

\* The substrings that mark a key as sensitive.
sensitive_keys ==
    {<<"p", "a", "s", "s", "w", "o", "r", "d">>,
     <<"s", "e", "c", "r", "e", "t">>,
     <<"k", "e", "y">>,
     <<"t", "o", "k", "e", "n">>,
     <<"a", "p", "i">>,
     <<"p", "r", "i", "v", "a", "t", "e">>}
\* any(s in key for s in sensitive_keys): the key as written, not lowered.
IsSensitiveAsWritten(key) == \E s \in sensitive_keys : Contains(key, s)

\* any(s in key.lower() for s in sensitive_keys)
IsSensitive(key) == \E s \in sensitive_keys : Contains(Lower(key), s)

EnvVar(key, value) == [key |-> key, value |-> value, is_sensitive |-> IsSensitive(key)]

\* The entries one line of the ENV file adds: none or one.
EnvFileLine(raw) ==
    LET line == Strip(raw)
    IN  IF line = <<>> \/ StartsWith(line, <<"#">>) THEN <<>>
        ELSE IF Find(line, "=") = 0 THEN <<>>
        ELSE LET parts == Partition(line, "=")
                 key == Strip(parts[1])
                 value == StripChars(StripChars(Strip(parts[2]), {"\""}), {"'"})
             IN  <<EnvVar(key, value)>>

\* The loop over the lines of the ENV file.
RECURSIVE EnvFileEntries(_)
EnvFileEntries(lines) ==
    IF lines = <<>> THEN <<>>
    ELSE EnvFileLine(Head(lines)) \o EnvFileEntries(Tail(lines))

\* sorted(env_vars, key=lambda e: e.key): a stable insertion sort.
RECURSIVE SortedByKey(_)
SortedByKey(env_vars) ==
    IF env_vars = <<>> THEN <<>>
    ELSE LET n == Len(env_vars)
             e == env_vars[n]
             before == SortedByKey(SubSeq(env_vars, 1, n - 1))
             k == Cardinality({i \in 1..Len(before) : ~StrLess(e.key, before[i].key)})
         IN  SubSeq(before, 1, k) \o <<e>> \o SubSeq(before, k + 1, Len(before))

\* _config_list_docker: a missing ENV file gives no entries.
ConfigListDocker(h, app_name) ==
    IF app_name \in DOMAIN h.env
    THEN SortedByKey(EnvFileEntries(h.env[app_name]))
    ELSE <<>>

\* return result.stdout or result.stderr or ""
RunOutput(reply) ==
    IF reply.stdout # <<>> THEN reply.stdout
    ELSE IF reply.stderr # <<>> THEN reply.stderr
    ELSE <<>>

\* _app_status_ssh, from the output of ps:report
AppStatusSsh(output) ==
    LET low == Lower(output)
    IN  IF Contains(low, Chars("running")) THEN "RUNNING"
        ELSE IF Contains(low, Chars("stopped")) THEN "STOPPED"
        ELSE IF Contains(low, Chars("crashed")) \/ Contains(low, Chars("exited")) THEN "CRASHED"
        ELSE "UNKNOWN"

\* The lines of an output that contain a marker.
LinesWith(output, markers) ==
    SelectSeq(SplitOn(output, "\n"), LAMBDA line : \E m \in markers : Contains(line, m))

\* _parse_domains with a break after the first marked line.
ParseDomainsFirstLine(output) ==
    LET found == LinesWith(output, {Chars("Domains app vhosts:")})
    IN  IF found = <<>> THEN <<>>
        ELSE Words(Strip(SplitFirst(found[1], ":")[2]))

\* _parse_domains: the last line with the marker decides.
ParseDomains(output) ==
    LET found == LinesWith(output, {Chars("Domains app vhosts:")})
    IN  IF found = <<>> THEN <<>>
        ELSE Words(Strip(SplitFirst(found[Len(found)], ":")[2]))

\* _parse_container_count: the first marked line that holds a number.
ParseContainerCount(output) ==
    LET found == SelectSeq(LinesWith(output, {Chars("Processes:"), Chars("Running:")}),
                           LAMBDA line : FirstDigits(line) # <<>>)
    IN  IF found = <<>> THEN 0 ELSE ToInt(FirstDigits(found[1]))

\* _parse_deploy_source
ParseDeploySource(output) ==
    LET found == LinesWith(output, {Chars("Git deploy branch:")})
    IN  IF found = <<>> THEN Chars("unknown")
        ELSE Strip(SplitFirst(found[1], ":")[2])

\* The entries one line of config:show adds: none or one.
ConfigShowLine(line) ==
    IF Find(line, ":") = 0 \/ StartsWith(line, <<"=">>) THEN <<>>
    ELSE LET parts == SplitFirst(line, ":")
             key == Strip(parts[1])
             value == Strip(parts[2])
         IN  IF StartsWith(key, Chars("====")) THEN <<>> ELSE <<EnvVar(key, value)>>

\* The loop over the lines of config:show.
RECURSIVE ConfigShowEntries(_)
ConfigShowEntries(lines) ==
    IF lines = <<>> THEN <<>>
    ELSE ConfigShowLine(Head(lines)) \o ConfigShowEntries(Tail(lines))

\* _parse_config
ParseConfig(output) == ConfigShowEntries(SplitOn(output, "\n"))

\* What the platform prints for a command about an application it has: a
\* few reports of each kind; one config:show has a value of three lines.
Reports(command, app_name) ==
    LET Report(body) == Chars("=====> ") \o NameChars(app_name) \o Chars(body)
    IN  CASE command = "ps:report" ->
                 {Report(" ps information\n   Deployed: true\n   Processes: 1\n   Running: true\n   Status web 1: running (CID: 0a1)\n"),
                  Report(" ps information\n   Deployed: true\n   Processes: 2\n   Running: false\n   Status web 1: exited (CID: 0a1)\n"),
                  Report(" ps information\n   Deployed: false\n   Processes: 0\n")}
          [] command = "domains:report" ->
                 {Report(" domains information\n   Domains app enabled: true\n   Domains app vhosts: one.example.com www.example.com\n   Domains global vhosts:\n"),
                  Report(" domains information\n   Domains app enabled: false\n   Domains app vhosts:\n")}
          [] command = "git:report" ->
                 {Report(" git information\n   Git deploy branch: main\n   Git rev env var: GIT_REV\n")}
          [] command = "config:show" ->
                 {Report(" env vars\nPORT:       5000\nAPI_TOKEN:  t0k\n"),
                  Report(" env vars\n"),
                  Report(" env vars\nORIGINS:    https://a.example\nhttps://b.example\nhttps://c.example\nPORT:       5000\n")}

\* What conn.run(command, check=False) brings back: a report on stdout, or,
\* for an application the platform does not have, its complaint on stderr.
Replies(h, command, app_name) ==
    IF app_name \in h.dirs
    THEN {[stdout |-> text, stderr |-> <<>>] : text \in Reports(command, app_name)}
    ELSE {[stdout |-> <<>>,
           stderr |-> Chars(" !     App ") \o NameChars(app_name) \o Chars(" does not exist\n")]}

\* _app_info_ssh, from the outputs of its four commands
AppInfoSsh(app_name, status_output, domains_output, ps_output, git_output) ==
    LET domains == ParseDomains(domains_output)
    IN  [name |-> app_name, status |-> AppStatusSsh(status_output),
         container_count |-> ParseContainerCount(ps_output),
         domains |-> domains, deploy_source |-> ParseDeploySource(git_output),
         web_url |-> WebUrl(domains)]

\* app_status(app_name)
AppStatusCall(app_name) ==
    /\ result = NoResult
    /\ call' = [op |-> "app_status", name |-> app_name]
    /\ IF use_docker
       THEN result' = [op |-> "app_status", status |-> AppStatusDocker(host, app_name)]
       ELSE \E reply \in Replies(host, "ps:report", app_name) :
                result' = [op |-> "app_status", status |-> AppStatusSsh(RunOutput(reply))]
    /\ UNCHANGED <<use_docker, req_vars, host>>

\* app_info(app_name)
AppInfoCall(app_name) ==
    /\ result = NoResult
    /\ call' = [op |-> "app_info", name |-> app_name]
    /\ IF use_docker
       THEN result' = [op |-> "app_info", app |-> AppInfoDocker(host, app_name)]
       ELSE \E status_reply \in Replies(host, "ps:report", app_name) :
            \E domains_reply \in Replies(host, "domains:report", app_name) :
            \E ps_reply \in Replies(host, "ps:report", app_name) :
            \E git_reply \in Replies(host, "git:report", app_name) :
                result' = [op |-> "app_info",
                           app |-> AppInfoSsh(app_name, RunOutput(status_reply),
                                              RunOutput(domains_reply), RunOutput(ps_reply),
                                              RunOutput(git_reply))]
    /\ UNCHANGED <<use_docker, req_vars, host>>

\* config_list(app_name)
ConfigListCall(app_name) ==
    /\ result = NoResult
    /\ call' = [op |-> "config_list", name |-> app_name]
    /\ IF use_docker
       THEN result' = [op |-> "config_list", env_vars |-> ConfigListDocker(host, app_name)]
       ELSE \E reply \in Replies(host, "config:show", app_name) :
                result' = [op |-> "config_list", env_vars |-> ParseConfig(RunOutput(reply))]
    /\ UNCHANGED <<use_docker, req_vars, host>>

\* What `apps:list` prints: a header line, then a name a line.
AppsListText(h) ==
    LET names == SortedNames(h.dirs \cap AppNames)
    IN  Chars("=====> ") \o Chars("My Apps\n")
            \o Join([i \in 1..Len(names) |-> NameChars(names[i]) \o <<"\n">>], <<>>)

\* The same listing as a terminal would relay it: names indented, carriage
\* returns, a blank line after each name.
AppsListPadded(h) ==
    LET names == SortedNames(h.dirs \cap AppNames)
    IN  Chars("=====> ") \o Chars("My Apps\n")
            \o Join([i \in 1..Len(names) |->
                        <<" ", " ">> \o NameChars(names[i]) \o <<"\r", "\n", "\n">>], <<>>)

\* What the platform may answer to `apps:list`.
AppsListTexts(h) == {AppsListText(h), AppsListPadded(h)}

\* apps_list, from the output of run
AppsList(output) ==
    LET lines == SplitOn(Strip(output), "\n")
    IN  SelectSeq([i \in 1..(Len(lines) - 1) |-> Strip(lines[i + 1])],
                  LAMBDA name : name # <<>>)

\* _get_apps_from_ssh with `for line in lines` in place of `lines[1:]`.
GetAppsFromSshKeepsHeader(output) ==
    LET lines == SplitOn(Strip(output), "\n")
        names == SelectSeq([i \in 1..Len(lines) |-> Strip(lines[i])],
                           LAMBDA name : name # <<>>)
    IN  [i \in 1..Len(names) |->
            [name |-> names[i], status |-> "UNKNOWN", container_count |-> 0,
             domains |-> <<>>, deploy_source |-> <<>>,
             web_url |-> Chars("https://") \o names[i] \o Chars(".brewbytes.dev")]]

\* _get_apps_from_ssh, from the output of run_fast
GetAppsFromSsh(output) ==
    LET lines == SplitOn(Strip(output), "\n")
        names == SelectSeq([i \in 1..(Len(lines) - 1) |-> Strip(lines[i + 1])],
                           LAMBDA name : name # <<>>)
    IN  [i \in 1..Len(names) |->
            [name |-> names[i], status |-> "UNKNOWN", container_count |-> 0,
             domains |-> <<>>, deploy_source |-> <<>>,
             web_url |-> Chars("https://") \o names[i] \o Chars(".brewbytes.dev")]]

\* The orders in which `docker ps -a` may print the containers of a host.
ReportOrders(containers) ==
    IF containers = <<>> THEN {<<>>}
    ELSE {[i \in 1..Len(containers) |-> containers[p[i]]] :
             p \in Permutations(1..Len(containers))}

\* get_all_apps.  Locally the runtime prints the containers in some order,
\* and reading a VHOST file whose bytes are no text raises out of the loop;
\* remotely run_fast gives the listing, or "" when it times out.
ListApps ==
    /\ IF use_docker
       THEN \E report \in ReportOrders(host.containers) :
                /\ call' = [op |-> "get_all_apps", report |-> report]
                /\ result' =
                       IF \E name \in host.dirs :
                              /\ ~(StartsWithDot(name) \/ name \in skip_dirs)
                              /\ name \in DOMAIN host.vhost
                              /\ FaultOf(host, name) = "unicode"
                       THEN [op |-> "get_all_apps", raised |-> "UnicodeDecodeError"]
                       ELSE [op |-> "get_all_apps",
                             apps |-> GetAppsFromDocker([host EXCEPT !.containers = report])]
       ELSE \E output \in AppsListTexts(host) \cup {<<>>} :
                /\ call' = [op |-> "get_all_apps", output |-> output]
                /\ result' = [op |-> "get_all_apps", apps |-> GetAppsFromSsh(output)]
    /\ UNCHANGED <<use_docker, req_vars, host>>

\* apps_list: always through run, whatever the path.
AppsListCall ==
    /\ result = NoResult
    /\ \E text \in AppsListTexts(host) :
           LET output == RunOutput([stdout |-> text, stderr |-> <<>>])
           IN  /\ call' = [op |-> "apps_list", output |-> output]
               /\ result' = [op |-> "apps_list", names |-> AppsList(output)]
    /\ UNCHANGED <<use_docker, req_vars, host>>

\* Every request builds its own DokkuClient and no operation here changes
\* the host, so what a call computes does not depend on the calls before
\* it: the calls other than the listing are followed from the start only,
\* while the listing may follow any call, so that successive listings of one
\* host are compared.
NextHost ==
    \/ ListApps
    \/ AppsListCall
    \/ \E app_name \in QueryNames : AppStatusCall(app_name)
    \/ \E app_name \in QueryNames : AppInfoCall(app_name)
    \/ \E app_name \in QueryNames : ConfigListCall(app_name)

SpecHost == InitHost /\ [][NextHost]_vars

\* The listing on hosts where the data of one application cannot be read
\* (SpecFaults): the hosts of SpecHost that have both applications, one of
\* them with a fault; only a VHOST file that exists can fail to be read.
InitFaults ==
    /\ use_docker \in BOOLEAN
    /\ ReqIdle
    /\ \E h \in Hosts : \E name \in AppNames : \E fault \in {"json", "oserror", "unicode"} :
           /\ AppNames \subseteq h.dirs
           /\ fault \in {"oserror", "unicode"} => name \in DOMAIN h.vhost
           /\ ~use_docker => h.containers = <<>>
           /\ host = [h EXCEPT !.faults = (name :> fault)]
    /\ call = NoCall
    /\ result = NoResult

SpecFaults == InitFaults /\ [][ListApps]_vars

-----------------------------------------------------------------------------
(* The display properties of the data models (SpecModels): masked_value,   *)
(* masked_dsn and status_color, each applied to a value drawn at the start. *)

\* The character U+2022, which masks what is not shown.
Bullet == "U+2022"

\* EnvVar.masked_value with `>= 50` in place of `> 50`.
MaskedValueFromFifty(env_var) ==
    IF env_var.is_sensitive \/ Len(env_var.value) >= 50
    THEN <<Bullet, Bullet, Bullet, Bullet, Bullet, Bullet, Bullet, Bullet>>
    ELSE env_var.value

\* EnvVar.masked_value
MaskedValue(env_var) ==
    IF env_var.is_sensitive \/ Len(env_var.value) > 50
    THEN <<Bullet, Bullet, Bullet, Bullet, Bullet, Bullet, Bullet, Bullet>>
    ELSE env_var.value

\* Service.masked_dsn with parts[0] shown and parts[1] masked.
MaskedDsnShowsCredential(dsn) ==
    LET parts == SplitOn(dsn, "@")
    IN  IF Find(dsn, ":") # 0 /\ Find(dsn, "@") # 0 /\ Len(parts) = 2
        THEN parts[1] \o <<"@", Bullet, Bullet, Bullet, Bullet, Bullet, Bullet, Bullet>>
        ELSE <<Bullet, Bullet, Bullet, Bullet, Bullet, Bullet, Bullet, Bullet>>

\* Service.masked_dsn
MaskedDsn(dsn) ==
    LET parts == SplitOn(dsn, "@")
    IN  IF Find(dsn, ":") # 0 /\ Find(dsn, "@") # 0 /\ Len(parts) = 2
        THEN <<Bullet, Bullet, Bullet, Bullet, Bullet, Bullet, Bullet, "@">> \o parts[2]
        ELSE <<Bullet, Bullet, Bullet, Bullet, Bullet, Bullet, Bullet, Bullet>>

\* SSLCertificate.status_color with `>= 60` in place of `> 60`.
StatusColorFromSixty(days_until_expiry) ==
    IF days_until_expiry >= 60 THEN "green"
    ELSE IF days_until_expiry > 30 THEN "yellow"
    ELSE IF days_until_expiry > 7 THEN "orange"
    ELSE "red"

\* SSLCertificate.status_color
StatusColor(days_until_expiry) ==
    IF days_until_expiry > 60 THEN "green"
    ELSE IF days_until_expiry > 30 THEN "yellow"
    ELSE IF days_until_expiry > 7 THEN "orange"
    ELSE "red"

MaxMaskedLen == 52
MaxDsnLen == 5
MaxDays == 65
MaxDaysPast == 3

\* Values of every length up to MaxMaskedLen, of one letter each.
MaskedValues == {[i \in 1..n |-> c] : n \in 0..MaxMaskedLen, c \in {"a", "b"}}

\* Connection strings: the separators and a letter, in any arrangement.
DsnAlphabet == {"a", ":", "@", "/"}

Dsns == SeqsUpTo(DsnAlphabet, MaxDsnLen)

Days == (0 - MaxDaysPast)..MaxDays

ModelCalls ==
    {[op |-> "masked_value", env_var |-> [key |-> <<"K">>, value |-> v, is_sensitive |-> s]] :
        v \in MaskedValues, s \in BOOLEAN}
    \cup {[op |-> "masked_dsn", dsn |-> d] : d \in Dsns}
    \cup {[op |-> "status_color", days_until_expiry |-> n] : n \in Days}

InitModels ==
    /\ use_docker = FALSE
    /\ ReqIdle
    /\ host = NoHost
    /\ call \in ModelCalls
    /\ result = NoResult

\* env_var.masked_value
ReadMaskedValue ==
    /\ call.op = "masked_value"
    /\ result = NoResult
    /\ result' = [op |-> "masked_value", text |-> MaskedValue(call.env_var)]
    /\ UNCHANGED <<use_docker, req_vars, host, call>>

\* service.masked_dsn
ReadMaskedDsn ==
    /\ call.op = "masked_dsn"
    /\ result = NoResult
    /\ result' = [op |-> "masked_dsn", text |-> MaskedDsn(call.dsn)]
    /\ UNCHANGED <<use_docker, req_vars, host, call>>

\* certificate.status_color
ReadStatusColor ==
    /\ call.op = "status_color"
    /\ result = NoResult
    /\ result' = [op |-> "status_color", color |-> StatusColor(call.days_until_expiry)]
    /\ UNCHANGED <<use_docker, req_vars, host, call>>

NextModels ==
    \/ ReadMaskedValue
    \/ ReadMaskedDsn
    \/ ReadStatusColor

SpecModels == InitModels /\ [][NextModels]_vars

\* C17: masked_value is the placeholder exactly when the variable is
\* sensitive or its value has more than 50 characters, and is the value
\* itself otherwise: 50 characters are shown, 51 are masked, and the
\* placeholder shares no character with the value.
C17_MaskedExactlyWhen ==
    result.op = "masked_value" =>
        LET env_var == call.env_var
            placeholder == [k \in 1..8 |-> Bullet]
            masked == env_var.is_sensitive \/ Len(env_var.value) > 50
        IN  /\ (result.text = placeholder) <=> masked
            /\ ~masked => result.text = env_var.value
            /\ (~env_var.is_sensitive /\ Len(env_var.value) = 50) =>
                   result.text = env_var.value
            /\ Len(env_var.value) = 51 => result.text = placeholder
            /\ masked => \A i \in 1..Len(env_var.value), k \in 1..Len(result.text) :
                             result.text[k] # env_var.value[i]

\* A value of 51 characters that is not sensitive, displayed.
C17_Witness ==
    /\ result.op = "masked_value"
    /\ ~call.env_var.is_sensitive
    /\ Len(call.env_var.value) = 51
    /\ result.text = [k \in 1..8 |-> Bullet]

\* C18: status_color is green above 60 days, yellow above 30 and up to 60,
\* orange above 7 and up to 30, red up to 7, zero and negative days included.
C18_StatusColorBands ==
    result.op = "status_color" =>
        LET days == call.days_until_expiry
        IN  /\ days > 60 => result.color = "green"
            /\ (days > 30 /\ days <= 60) => result.color = "yellow"
            /\ (days > 7 /\ days <= 30) => result.color = "orange"
            /\ days <= 7 => result.color = "red"

\* A certificate with exactly 60 days left.
C18_Witness ==
    /\ result.op = "status_color"
    /\ call.days_until_expiry = 60
    /\ result.color = "yellow"

\* C19: masked_dsn is the placeholder alone, or a placeholder, '@' and the
\* text after the '@'; it is never the connection string itself, and the
\* text before the '@' is not in it (unless the text after the '@' holds the
\* same characters).
C19_DsnCredentialHidden ==
    result.op = "masked_dsn" =>
        LET dsn == call.dsn
            at == Find(dsn, "@")
            credential == SubSeq(dsn, 1, at - 1)
            after == SubSeq(dsn, at + 1, Len(dsn))
        IN  /\ \/ result.text = [k \in 1..8 |-> Bullet]
               \/ at # 0 /\ result.text = [k \in 1..7 |-> Bullet] \o <<"@">> \o after
            /\ result.text # dsn
            /\ (at # 0 /\ credential # <<>> /\ ~Contains(after, credential)) =>
                   ~Contains(result.text, credential)

\* The connection string ":a@/:", displayed with the text after the '@'.
C19_Witness ==
    /\ result.op = "masked_dsn"
    /\ call.dsn = <<":", "a", "@", "/", ":">>
    /\ result.text = [k \in 1..7 |-> Bullet] \o <<"@", "/", ":">>

\* The rank of a status in RESTARTING > STARTING > RUNNING > STOPPED/CRASHED > UNKNOWN.
Priority(status) ==
    CASE status = "RESTARTING" -> 4
      [] status = "STARTING" -> 3
      [] status = "RUNNING" -> 2
      [] status \in {"STOPPED", "CRASHED"} -> 1
      [] OTHER -> 0

\* The statuses of the containers the runtime reports for an application.
ContainerStatuses(h, name) ==
    {ToAppStatus(LineState(PsLine(h.containers[i]))) :
        i \in {j \in 1..Len(h.containers) : h.containers[j].name = name}}

\* C2: the status the local listing gives an application that has containers
\* is the highest-priority status among its containers.
C2_HighestPriority ==
    (use_docker /\ result.op = "get_all_apps") =>
        \A i \in 1..Len(result.apps) :
            LET app == result.apps[i]
                among == ContainerStatuses(host, app.name)
            IN  among # {} =>
                    /\ app.status \in among
                    /\ \A s \in among : Priority(s) <= Priority(app.status)

\* C10: for an application name the host does not have, app_status and
\* app_info answer UNKNOWN, app_info with no domains, and config_list
\* answers the empty list, on the local and on the remote path.
C10_MissingAppUnknown ==
    (call.op \in {"app_status", "app_info", "config_list"} /\ call.name \notin host.dirs) =>
        /\ result.op = call.op
        /\ result.op = "app_status" => result.status = "UNKNOWN"
        /\ result.op = "app_info" =>
               (result.app.status = "UNKNOWN" /\ result.app.domains = <<>>)
        /\ result.op = "config_list" => result.env_vars = <<>>

\* The states of the containers the runtime reports for an application.
StatesOf(h, name) ==
    {h.containers[i].state :
        i \in {j \in 1..Len(h.containers) : h.containers[j].name = name}}

\* A status an application without a running container may be given.
NotRunningStatus(status, states) ==
    \/ status \in {"STOPPED", "UNKNOWN"}
    \/ status \in {"RESTARTING", "STARTING"} /\ states \cap {"restarting", "created"} # {}

\* C11: on the local path an application that has its directory and no
\* running container is never RUNNING, in the listing or in app_status and
\* app_info: it is STOPPED or UNKNOWN, or transitional when a container is
\* restarting or created.
C11_NoRunningWithoutContainer ==
    use_docker =>
        /\ result.op = "get_all_apps" =>
               \A i \in 1..Len(result.apps) :
                   LET states == StatesOf(host, result.apps[i].name)
                   IN  "running" \notin states =>
                           NotRunningStatus(result.apps[i].status, states)
        /\ (result.op \in {"app_status", "app_info"} /\ call.name \in host.dirs
                /\ "running" \notin StatesOf(host, call.name)) =>
               NotRunningStatus(IF result.op = "app_status" THEN result.status
                                ELSE result.app.status,
                                StatesOf(host, call.name))

\* app_info of an application whose containers are paused and exited.
C11_Witness ==
    /\ use_docker
    /\ result.op = "app_info"
    /\ call.name = "app-one"
    /\ StatesOf(host, "app-one") = {"paused", "exited"}
    /\ result.app.status = "STOPPED"

\* The non-blank lines that follow the first line of a text, trimmed.
LinesAfterHeader(text) ==
    LET lines == SplitOn(text, "\n")
    IN  SelectSeq([i \in 1..(Len(lines) - 1) |-> Strip(lines[i + 1])],
                  LAMBDA line : line # <<>>)

\* C12: on the remote path the listing's names, and the names apps_list
\* returns, are the non-blank lines after the header line of the output,
\* trimmed and in the order of the output; an empty output gives no entry.
C12_RemoteListingNames ==
    /\ (~use_docker /\ result.op = "get_all_apps") =>
           /\ Len(result.apps) = Len(LinesAfterHeader(call.output))
           /\ \A i \in 1..Len(result.apps) :
                  result.apps[i].name = LinesAfterHeader(call.output)[i]
           /\ call.output = <<>> => result.apps = <<>>
    /\ (~use_docker /\ result.op = "apps_list") =>
           result.names = LinesAfterHeader(call.output)

\* A padded listing of two applications read on the remote path.
C12_Witness ==
    /\ ~use_docker
    /\ result.op = "get_all_apps"
    /\ call.output = AppsListPadded(host)
    /\ Len(result.apps) = 2
    /\ result.apps[1].name = Chars("app-one")
    /\ result.apps[2].name = Chars("app-two")

\* Two listings with the same names in the same order and the same status
\* for each name.
SameListing(apps1, apps2) ==
    /\ Len(apps1) = Len(apps2)
    /\ \A i \in 1..Len(apps1) :
           /\ apps1[i].name = apps2[i].name
           /\ apps1[i].status = apps2[i].status

\* C13: a listing that follows a listing of the same host, with no other
\* operation in between, gives the same names and statuses, in whatever order
\* the runtime reports the containers (on the remote path: when both listings
\* were answered).
C13_ListingRepeatable ==
    [][(/\ result.op = "get_all_apps"
        /\ result'.op = "get_all_apps"
        /\ host' = host
        /\ ~use_docker => (call.output # <<>> /\ call'.output # <<>>))
       => SameListing(result.apps, result'.apps)]_vars

\* The names the listing must leave out.
ReservedNames ==
    {"ENV", "VHOST", "tls", "dokkurc", ".basher", ".cache", ".config", ".ssh", ".local"}

\* An entry the listing must leave out: reserved, or its name starts with '.'.
LeftOut(name) == name \in ReservedNames \/ Head(NameChars(name)) = "."

\* C14: the local listing is in ascending order of name, has no entry that
\* is reserved or starts with '.', and has every other entry of the
\* application root exactly once.
C14_ListingSortedAndFiltered ==
    (use_docker /\ result.op = "get_all_apps") =>
        /\ \A i, j \in 1..Len(result.apps) :
               i < j => StrLess(NameChars(result.apps[i].name),
                                NameChars(result.apps[j].name))
        /\ \A i \in 1..Len(result.apps) : ~LeftOut(result.apps[i].name)
        /\ {result.apps[i].name : i \in 1..Len(result.apps)}
               = {name \in host.dirs : ~LeftOut(name)}

\* The listing of the host that holds reserved entries and the VERSION file.
C14_Witness ==
    /\ use_docker
    /\ result.op = "get_all_apps"
    /\ {".cache", "tls", "VHOST", "dokkurc"} \subseteq host.dirs
    /\ Len(result.apps) = 3
    /\ result.apps[1].name = "VERSION"
    /\ result.apps[2].name = "app-one"
    /\ result.apps[3].name = "app-two"

\* web_url is "https://" and the first domain, or empty without a domain.
DerivedWebUrl(app) ==
    IF app.domains = <<>> THEN app.web_url = <<>>
    ELSE app.web_url = <<"h", "t", "t", "p", "s", ":", "/", "/">> \o app.domains[1]

\* C15: every App of a listing or of app_info, on either path, has a web_url
\* derived from its first domain, empty when it has no domain.
C15_WebUrlFromDomains ==
    /\ result.op = "get_all_apps" =>
           \A i \in 1..Len(result.apps) : DerivedWebUrl(result.apps[i])
    /\ result.op = "app_info" => DerivedWebUrl(result.app)

\* The keywords that mark a key as sensitive.
SensitiveWords ==
    {<<"p", "a", "s", "s", "w", "o", "r", "d">>,
     <<"s", "e", "c", "r", "e", "t">>,
     <<"k", "e", "y">>,
     <<"t", "o", "k", "e", "n">>,
     <<"a", "p", "i">>,
     <<"p", "r", "i", "v", "a", "t", "e">>}

\* A key that holds one of the keywords, in upper or lower case.
HoldsSensitiveWord(key) == \E word \in SensitiveWords : Contains(Lower(key), word)

\* C16: every variable config_list returns, from the ENV file or from
\* config:show, is sensitive when its key holds one of the keywords in any
\* case, and is then displayed as the placeholder; it is not sensitive when
\* its key holds none.
C16_SensitiveKeysMasked ==
    result.op = "config_list" =>
        \A i \in 1..Len(result.env_vars) :
            LET env_var == result.env_vars[i]
            IN  IF HoldsSensitiveWord(env_var.key)
                THEN /\ env_var.is_sensitive
                     /\ MaskedValue(env_var) = [k \in 1..8 |-> Bullet]
                ELSE ~env_var.is_sensitive

\* config:show of an application with an upper-case API_TOKEN and a PORT.
C16_Witness ==
    /\ ~use_docker
    /\ result.op = "config_list"
    /\ \E i, j \in 1..Len(result.env_vars) :
           /\ result.env_vars[i].key = <<"A", "P", "I", "_", "T", "O", "K", "E", "N">>
           /\ result.env_vars[i].is_sensitive
           /\ result.env_vars[j].key = <<"P", "O", "R", "T">>
           /\ ~result.env_vars[j].is_sensitive

\* C20: every list config_list returns, from the ENV file or from
\* config:show, has no empty key and no key twice.
C20_KeysNonEmptyUnique ==
    result.op = "config_list" =>
        /\ \A i \in 1..Len(result.env_vars) : result.env_vars[i].key # <<>>
        /\ \A i, j \in 1..Len(result.env_vars) :
               i # j => result.env_vars[i].key # result.env_vars[j].key

-----------------------------------------------------------------------------
(* The report parsers (SpecReports): each parser of the facade applied to  *)
(* a text the platform or the container runtime printed, drawn at the      *)
(* start.                                                                  *)

MaxReportLines == 2

\* The texts of at most MaxReportLines of the given lines.
ReportTexts(lines) == {Join(ls, <<"\n">>) : ls \in SeqsUpTo(lines, MaxReportLines)}

\* Lines the parsers meet.  domains:report: whole, empty-valued, with a
\* scheme, cut short.  ps:report: the fields of a process report, the
\* Running field true and false, a process running, exited and stopped.
\* ps:scale: heading, borders, quantities that are
\* numbers, signed, grouped by underscores, or no numbers at all.
\* docker ps -aq: the identifiers of two containers.
\* letsencrypt:list: the heading, the certificate of an application, that
\* of another whose name begins with the first's, and a line cut short.
\* checks:report, network:report, proxy:report, storage:report: each field
\* with a value, without one, and with a value that is not of its kind.
ReportLines(op) ==
  CASE op = "parse_domains" ->
    {Chars("=====> app-one domains information"),
     Chars("   Domains app enabled: true"),
     Chars("   Domains app vhosts: one.example.com www.example.com"),
     Chars("   Domains app vhosts:   two.example.com"),
     Chars("   Domains app vhosts: http://one.example.com"),
     Chars("   Domains app vhosts:"),
     Chars("   Domains app vho")}
    [] op = "get_app_scaling" ->
    {Chars("-----> Scaling for app-one"),
     Chars("proctype: qty"),
     Chars("--------: ---"),
     Chars("web: 1"),
     Chars("worker:  0"),
     Chars("web: -1"),
     Chars("web: 1: 2"),
     Chars("release: 1_0")}
    [] op = "app_status" ->
    {Chars("       Deployed:                      true"),
     Chars("       Processes:                     1"),
     Chars("       Running:                       true"),
     Chars("       Running:                       false"),
     Chars("       Status web 1:                  running (CID: 0a1)"),
     Chars("       Status web 1:                  exited (CID: 0a1)"),
     Chars("       Status web 1:                  stopped (CID: 0a1)")}
    [] op = "get_app_ssl_status" ->
    {Chars("-----> App name           Certificate Expiry        Time before expiry        Time before renewal"),
     Chars("app-one                   2026-01-20 05:25:37       39d, 8h, 3m, 2s           9d, 8h, 3m, 2s"),
     Chars("app-one-staging           2026-03-01 10:00:00       79d, 1h, 2m, 3s           49d, 1h, 2m, 3s"),
     Chars("app-one                   2026-01-20 05:25:37       soon")}
    [] op = "docker ps -aq" ->
    {Chars("0a1b2c3d4e5f"), Chars("6f7e8d9c0b1a")}
    [] op = "get_app_health_checks" ->
    {Chars("       Checks disabled list:         web worker"),
     Chars("       Checks disabled list:         none"),
     Chars("       Checks skipped list:          web"),
     Chars("       Checks wait to retire:        30"),
     Chars("       Checks wait to retire:        soon"),
     Chars("       Checks wait to retire:")}
    [] op = "get_app_network_config" ->
    {Chars("       Network attach post deploy:   net-a net-b"),
     Chars("       Network attach post deploy:"),
     Chars("       Network bind all interfaces:  true"),
     Chars("       Network bind all interfaces:  maybe"),
     Chars("       Network initial network:      bridge"),
     Chars("       Network initial network:")}
    [] op = "proxy:report" ->
    {Chars("       Proxy port map:               http:80:5000 https:443:5000"),
     Chars("       Proxy port map:")}
    [] op = "get_app_storage_mounts" ->
    {Chars("       Storage build mounts:"),
     Chars("       Storage deploy mounts:        -v /var/lib/data:/data"),
     Chars("       Storage run mounts:           -v /var/lib/data:/data -v cache:/cache"),
     Chars("       Storage run mounts:           none"),
     Chars("       Storage deploy mounts:        /broken")}

\* int(text): surrounding whitespace is dropped; a sign may lead; single
\* underscores may stand between digits; anything else is a ValueError.
IntOf(text) ==
    LET t == Strip(text)
        signed == t # <<>> /\ t[1] \in {"+", "-"}
        body == IF signed THEN Tail(t) ELSE t
        n == Len(body)
        ok == /\ n > 0
              /\ \A i \in 1..n : IsDigit(body[i]) \/ body[i] = "_"
              /\ body[1] # "_" /\ body[n] # "_"
              /\ \A i \in 1..(n - 1) : ~(body[i] = "_" /\ body[i + 1] = "_")
        magnitude == ToInt(SelectSeq(body, LAMBDA c : c # "_"))
    IN  IF ~ok THEN [ok |-> FALSE, value |-> 0]
        ELSE [ok |-> TRUE,
              value |-> IF signed /\ t[1] = "-" THEN 0 - magnitude ELSE magnitude]

\* get_app_scaling, from the output of `dokku ps:scale <app>`
GetAppScaling(output) ==
    LET lines == SplitOn(Strip(output), "\n")
        Parts(line) == SplitOn(line, ":")
        Taken(line) == /\ Find(line, ":") # 0
                       /\ ~StartsWith(line, Chars("---"))
                       /\ ~StartsWith(line, Chars("==="))
                       /\ Len(Parts(line)) = 2
                       /\ IntOf(Strip(Parts(line)[2])).ok
        kept == SelectSeq(lines, Taken)
    IN  [i \in 1..Len(kept) |->
            [process_type |-> Strip(Parts(kept[i])[1]),
             quantity |-> IntOf(Strip(Parts(kept[i])[2])).value]]

\* get_app_health_checks with the try around the whole loop: a value that
\* is no number ends the loop, and what was read before it is returned.
GetAppHealthChecksGuardedAsAWhole(output) ==
    LET all == SplitOn(Strip(output), "\n")
        Value(line) == Strip(SplitFirst(line, ":")[2])
        bad == {i \in 1..Len(all) :
                   /\ ~Contains(all[i], Chars("Checks disabled list:"))
                   /\ ~Contains(all[i], Chars("Checks skipped list:"))
                   /\ Contains(Lower(all[i]), Chars("wait to retire:"))
                   /\ ~IntOf(Value(all[i])).ok}
        lines == IF bad = {} THEN all
                 ELSE SubSeq(all, 1, (CHOOSE i \in bad : \A j \in bad : i <= j) - 1)
        Branch(line) ==
            IF Contains(line, Chars("Checks disabled list:")) THEN "disabled"
            ELSE IF Contains(line, Chars("Checks skipped list:")) THEN "skipped"
            ELSE IF Contains(Lower(line), Chars("wait to retire:")) THEN "wait_to_retire"
            ELSE "none"
        Assigns(line) ==
            IF Branch(line) \in {"disabled", "skipped"}
            THEN Value(line) # <<>> /\ Value(line) # Chars("none")
            ELSE Branch(line) = "wait_to_retire" /\ IntOf(Value(line)).ok
        Last(field) ==
            LET at == {i \in 1..Len(lines) : Branch(lines[i]) = field /\ Assigns(lines[i])}
            IN  IF at = {} THEN 0 ELSE CHOOSE i \in at : \A j \in at : j <= i
    IN  [disabled |-> IF Last("disabled") = 0 THEN <<>>
                      ELSE Words(Value(lines[Last("disabled")])),
         skipped |-> IF Last("skipped") = 0 THEN <<>>
                     ELSE Words(Value(lines[Last("skipped")])),
         wait_to_retire |-> IF Last("wait_to_retire") = 0 THEN 60
                            ELSE IntOf(Value(lines[Last("wait_to_retire")])).value]

\* get_app_health_checks, from the output of `dokku checks:report <app>`.
\* A line takes the first branch whose marker it contains; a field ends up
\* with what the last line that assigned it gave.
GetAppHealthChecks(output) ==
    LET lines == SplitOn(Strip(output), "\n")
        Value(line) == Strip(SplitFirst(line, ":")[2])
        Branch(line) ==
            IF Contains(line, Chars("Checks disabled list:")) THEN "disabled"
            ELSE IF Contains(line, Chars("Checks skipped list:")) THEN "skipped"
            ELSE IF Contains(Lower(line), Chars("wait to retire:")) THEN "wait_to_retire"
            ELSE "none"
        Assigns(line) ==
            IF Branch(line) \in {"disabled", "skipped"}
            THEN Value(line) # <<>> /\ Value(line) # Chars("none")
            ELSE Branch(line) = "wait_to_retire" /\ IntOf(Value(line)).ok
        Last(field) ==
            LET at == {i \in 1..Len(lines) : Branch(lines[i]) = field /\ Assigns(lines[i])}
            IN  IF at = {} THEN 0 ELSE CHOOSE i \in at : \A j \in at : j <= i
    IN  [disabled |-> IF Last("disabled") = 0 THEN <<>>
                      ELSE Words(Value(lines[Last("disabled")])),
         skipped |-> IF Last("skipped") = 0 THEN <<>>
                     ELSE Words(Value(lines[Last("skipped")])),
         wait_to_retire |-> IF Last("wait_to_retire") = 0 THEN 60
                            ELSE IntOf(Value(lines[Last("wait_to_retire")])).value]

\* get_app_network_config, from the outputs of `dokku network:report <app>`
\* and `dokku proxy:report <app>`
GetAppNetworkConfig(network_output, proxy_output) ==
    LET lines == SplitOn(Strip(network_output), "\n")
        proxy_lines == SplitOn(Strip(proxy_output), "\n")
        Value(line) == Strip(SplitFirst(line, ":")[2])
        Branch(line) ==
            IF Contains(line, Chars("Network attach post deploy:")) THEN "attached_networks"
            ELSE IF Contains(line, Chars("Network bind all interfaces:"))
            THEN "bind_all_interfaces"
            ELSE IF Contains(line, Chars("Network initial network:")) THEN "initial_network"
            ELSE "none"
        Assigns(line) == Branch(line) = "attached_networks" => Value(line) # <<>>
        Last(field) ==
            LET at == {i \in 1..Len(lines) : Branch(lines[i]) = field /\ Assigns(lines[i])}
            IN  IF at = {} THEN 0 ELSE CHOOSE i \in at : \A j \in at : j <= i
        mapped == {i \in 1..Len(proxy_lines) :
                      /\ Contains(proxy_lines[i], Chars("Proxy port map:"))
                      /\ Value(proxy_lines[i]) # <<>>}
    IN  [attached_networks |-> IF Last("attached_networks") = 0 THEN <<>>
                               ELSE Words(Value(lines[Last("attached_networks")])),
         bind_all_interfaces |->
             /\ Last("bind_all_interfaces") # 0
             /\ Contains(Lower(lines[Last("bind_all_interfaces")]), Chars("true")),
         initial_network |-> IF Last("initial_network") = 0 THEN <<>>
                             ELSE Value(lines[Last("initial_network")]),
         port_mappings |->
             IF mapped = {} THEN <<>>
             ELSE Words(Value(proxy_lines[CHOOSE i \in mapped : \A j \in mapped : j <= i]))]

\* The mounts the lines of a storage report add, line after line: of a
\* marked line whose value is neither empty nor "none", every word that
\* holds a colon, split at its first colon.
RECURSIVE StorageMounts(_)
StorageMounts(lines) ==
    IF lines = <<>> THEN <<>>
    ELSE LET line == Head(lines)
             marked == \/ Contains(line, Chars("Storage build mounts:"))
                       \/ Contains(line, Chars("Storage deploy mounts:"))
                       \/ Contains(line, Chars("Storage run mounts:"))
             mount_info == Strip(SplitFirst(line, ":")[2])
             taken == IF marked /\ mount_info # <<>> /\ mount_info # Chars("none")
                      THEN SelectSeq(Words(mount_info), LAMBDA mount : Find(mount, ":") # 0)
                      ELSE <<>>
         IN  [i \in 1..Len(taken) |->
                 [host_path |-> SplitFirst(taken[i], ":")[1],
                  container_path |-> SplitFirst(taken[i], ":")[2],
                  type |-> IF ~StartsWith(SplitFirst(taken[i], ":")[1], <<"/">>)
                           THEN "bind" ELSE "volume"]]
             \o StorageMounts(Tail(lines))

\* get_app_storage_mounts, from the output of `dokku storage:report <app>`
GetAppStorageMounts(output) == StorageMounts(SplitOn(Strip(output), "\n"))

\* get_app_ssl_status, from the output of `dokku letsencrypt:list`: the first
\* line that starts with app_name, has four words, and a day count int()
\* accepts decides.
GetAppSslStatus(app_name, output) ==
    LET lines == SplitOn(Strip(output), "\n")
        DaysText(word) ==
            IF Contains(word, Chars("d,"))
            THEN SubSeq(word, 1, (CHOOSE i \in 1..Len(word) :
                                     /\ SubSeq(word, i, i + 1) = Chars("d,")
                                     /\ \A j \in 1..(i - 1) : SubSeq(word, j, j + 1) # Chars("d,")) - 1)
            ELSE Chars("0")
        found == {i \in 1..Len(lines) :
                     /\ StartsWith(Strip(lines[i]), app_name)
                     /\ Len(Words(lines[i])) >= 4
                     /\ IntOf(DaysText(Words(lines[i])[4])).ok}
    IN  IF found = {} THEN [enabled |-> FALSE]
        ELSE LET parts == Words(lines[CHOOSE i \in found : \A j \in found : i <= j])
             IN  [enabled |-> TRUE,
                  expiry_date |-> parts[2] \o <<" ">> \o parts[3],
                  days_until_expiry |-> IntOf(DaysText(parts[4])).value]

\* _get_container_names, from the output of `docker ps -aq --filter ...`
GetContainerNames(output) == SplitOn(Strip(output), "\n")

ReportCalls ==
    UNION {{[op |-> op, output |-> text] : text \in ReportTexts(ReportLines(op))} :
              op \in {"parse_domains", "app_status", "get_app_scaling",
                       "get_app_health_checks", "get_app_storage_mounts"}}
    \cup {[op |-> op, output |-> text] :
              op \in {"app_start", "app_stop", "app_restart"},
              text \in ReportTexts(ReportLines("docker ps -aq"))}
    \cup {[op |-> "get_app_ssl_status", name |-> NameChars("app-one"), output |-> text] :
              text \in ReportTexts(ReportLines("get_app_ssl_status"))}
    \cup {[op |-> "get_app_network_config", output |-> text, proxy_output |-> <<>>] :
              text \in ReportTexts(ReportLines("get_app_network_config"))}
    \cup {[op |-> "get_app_network_config", output |-> <<>>, proxy_output |-> text] :
              text \in ReportTexts(ReportLines("proxy:report"))}

\* The lifecycle operations read the container names on the local path
\* only; the domain and process reports are read on the remote path only;
\* the other operations run the platform's command on either path.
InitReports ==
    /\ use_docker \in BOOLEAN
    /\ ReqIdle
    /\ host = NoHost
    /\ call \in ReportCalls
    /\ call.op \in {"app_start", "app_stop", "app_restart"} => use_docker
    /\ call.op \in {"parse_domains", "app_status"} => ~use_docker
    /\ result = NoResult

\* self._parse_domains(domains_output)
ParseDomainsCall ==
    /\ call.op = "parse_domains"
    /\ result = NoResult
    /\ result' = [op |-> "parse_domains", domains |-> ParseDomains(call.output)]
    /\ UNCHANGED <<use_docker, req_vars, host, call>>

\* get_app_scaling(app_name)
GetAppScalingCall ==
    /\ call.op = "get_app_scaling"
    /\ result = NoResult
    /\ result' = [op |-> "get_app_scaling", processes |-> GetAppScaling(call.output)]
    /\ UNCHANGED <<use_docker, req_vars, host, call>>

\* get_app_health_checks(app_name)
GetAppHealthChecksCall ==
    /\ call.op = "get_app_health_checks"
    /\ result = NoResult
    /\ result' = [op |-> "get_app_health_checks", config |-> GetAppHealthChecks(call.output)]
    /\ UNCHANGED <<use_docker, req_vars, host, call>>

\* get_app_network_config(app_name)
GetAppNetworkConfigCall ==
    /\ call.op = "get_app_network_config"
    /\ result = NoResult
    /\ result' = [op |-> "get_app_network_config",
                  config |-> GetAppNetworkConfig(call.output, call.proxy_output)]
    /\ UNCHANGED <<use_docker, req_vars, host, call>>

\* get_app_storage_mounts(app_name)
GetAppStorageMountsCall ==
    /\ call.op = "get_app_storage_mounts"
    /\ result = NoResult
    /\ result' = [op |-> "get_app_storage_mounts", mounts |-> GetAppStorageMounts(call.output)]
    /\ UNCHANGED <<use_docker, req_vars, host, call>>

\* _app_status_ssh(app_name), from the output of `ps:report <app>`
AppStatusSshCall ==
    /\ call.op = "app_status"
    /\ result = NoResult
    /\ result' = [op |-> "app_status", status |-> AppStatusSsh(call.output)]
    /\ UNCHANGED <<use_docker, req_vars, host, call>>

\* get_app_ssl_status(app_name)
GetAppSslStatusCall ==
    /\ call.op = "get_app_ssl_status"
    /\ result = NoResult
    /\ result' = [op |-> "get_app_ssl_status",
                  ssl |-> GetAppSslStatus(call.name, call.output)]
    /\ UNCHANGED <<use_docker, req_vars, host, call>>

\* _app_start_docker, _app_stop_docker, _app_restart_docker: the arguments
\* handed to create_subprocess_exec.
AppControlDockerCall ==
    /\ call.op \in {"app_start", "app_stop", "app_restart"}
    /\ result = NoResult
    /\ result' = [op |-> call.op,
                  argv |-> <<Chars("docker"),
                             CASE call.op = "app_start" -> Chars("start")
                               [] call.op = "app_stop" -> Chars("stop")
                               [] call.op = "app_restart" -> Chars("restart")>>
                           \o GetContainerNames(call.output)]
    /\ UNCHANGED <<use_docker, req_vars, host, call>>

NextReports ==
    \/ ParseDomainsCall
    \/ AppControlDockerCall
    \/ GetAppSslStatusCall
    \/ AppStatusSshCall
    \/ GetAppScalingCall
    \/ GetAppHealthChecksCall
    \/ GetAppNetworkConfigCall
    \/ GetAppStorageMountsCall

SpecReports == InitReports /\ [][NextReports]_vars

\* The positions of the lines of a text that contain a marker.
MarkedLines(output, marker) ==
    LET lines == SplitOn(output, "\n")
    IN  {i \in 1..Len(lines) : Contains(lines[i], marker)}

\* C21: the domain parser returns, in order, the whitespace-separated tokens
\* after the first colon of the last line that contains 'Domains app
\* vhosts:', and the empty list when no line contains it.
C21_DomainsOfLastMarkedLine ==
    result.op = "parse_domains" =>
        LET lines == SplitOn(call.output, "\n")
            marked == MarkedLines(call.output, Chars("Domains app vhosts:"))
        IN  IF marked = {} THEN result.domains = <<>>
            ELSE LET last == CHOOSE i \in marked : \A j \in marked : j <= i
                     line == lines[last]
                 IN  result.domains = Words(SubSeq(line, Find(line, ":") + 1, Len(line)))

\* A report with two marked lines, the last of which names two domains.
C21_Witness ==
    /\ result.op = "parse_domains"
    /\ Cardinality(MarkedLines(call.output, Chars("Domains app vhosts:"))) = 2
    /\ result.domains = <<Chars("one.example.com"), Chars("www.example.com")>>

\* C22: every ProcessScale the scaling operation returns has a quantity
\* that is not negative.
C22_QuantitiesNotNegative ==
    result.op = "get_app_scaling" =>
        \A i \in 1..Len(result.processes) : result.processes[i].quantity >= 0

\* Report lines whose value is not of its field's kind, each with the field
\* it belongs to, the field's label, and a line that gives the field a value.
MalformedLines ==
    {<<"get_app_health_checks", "wait_to_retire", Chars("wait to retire:"),
       Chars("       Checks wait to retire:        soon"),
       Chars("       Checks wait to retire:        30")>>,
     <<"get_app_health_checks", "wait_to_retire", Chars("wait to retire:"),
       Chars("       Checks wait to retire:"),
       Chars("       Checks wait to retire:        30")>>,
     <<"get_app_network_config", "attached_networks", Chars("Network attach post deploy:"),
       Chars("       Network attach post deploy:"),
       Chars("       Network attach post deploy:   net-a net-b")>>,
     <<"get_app_network_config", "bind_all_interfaces", Chars("Network bind all interfaces:"),
       Chars("       Network bind all interfaces:  maybe"),
       Chars("       Network bind all interfaces:  true")>>,
     <<"get_app_network_config", "initial_network", Chars("Network initial network:"),
       Chars("       Network initial network:"),
       Chars("       Network initial network:      bridge")>>}

\* What a parser of a configuration makes of a call's outputs.
ParsedConfig(c) ==
    IF c.op = "get_app_health_checks" THEN GetAppHealthChecks(c.output)
    ELSE GetAppNetworkConfig(c.output, c.proxy_output)

\* Whether a field of a configuration has its default.
AtDefault(config, field) ==
    CASE field = "wait_to_retire" -> config[field] = 60
      [] field = "bind_all_interfaces" -> config[field] = FALSE
      [] OTHER -> config[field] = <<>>

C25_StatusIndependentOfOrder ==
    (use_docker /\ result.op = "get_all_apps") =>
        \A report \in ReportOrders(call.report) :
            SameListing(result.apps, GetAppsFromDocker([host EXCEPT !.containers = report]))

\* C26: on the local path the status app_status and app_info give for an
\* application is the status the listing of the same host gives it.
C26_StatusAgreesWithListing ==
    (use_docker /\ result.op \in {"app_status", "app_info"}) =>
        LET status == IF result.op = "app_status" THEN result.status ELSE result.app.status
        IN  \A report \in ReportOrders(host.containers) :
                LET apps == GetAppsFromDocker([host EXCEPT !.containers = report])
                IN  \A i \in 1..Len(apps) :
                        apps[i].name = call.name => apps[i].status = status

\* The lines of a process report that say the application is running.
RunningLines ==
    {Chars("       Running:                       true"),
     Chars("       Status web 1:                  running (CID: 0a1)")}

\* C27: remote app_status answers RUNNING only for a process report with a
\* line that says the application is running; a report with the field
\* Running at false and no such line is not RUNNING.
C27_RunningOnlyWhenReported ==
    (result.op = "app_status" /\ result.status = "RUNNING") =>
        \E i \in 1..Len(SplitOn(call.output, "\n")) :
            SplitOn(call.output, "\n")[i] \in RunningLines

\* C28: get_app_ssl_status reports a certificate as enabled only with the
\* expiry date of a certificate-list line whose first word is exactly the
\* application's name.
C28_CertificateOfThatApplication ==
    (result.op = "get_app_ssl_status" /\ result.ssl.enabled) =>
        LET lines == SplitOn(call.output, "\n")
        IN  \E i \in 1..Len(lines) :
                /\ Len(Words(lines[i])) >= 3
                /\ Words(lines[i])[1] = call.name
                /\ result.ssl.expiry_date = Words(lines[i])[2] \o <<" ">> \o Words(lines[i])[3]

\* C29: a local start, stop or restart hands the runtime only container
\* names that are not empty, and none when the application has no
\* containers.
C29_NoEmptyContainerName ==
    result.op \in {"app_start", "app_stop", "app_restart"} =>
        /\ \A i \in 3..Len(result.argv) : result.argv[i] # <<>>
        /\ call.output = <<>> => Len(result.argv) = 2

\* C23: on a host where the data of one application cannot be read, the
\* local listing completes with an entry for every application; the entry
\* of that application has status UNKNOWN, and the entries of the others are
\* those of the same host without the fault.
C23_FailedApplicationListedUnknown ==
    (use_docker /\ result.op = "get_all_apps") =>
        /\ "apps" \in DOMAIN result
        /\ LET sound == GetAppsFromDocker([host EXCEPT !.containers = call.report,
                                                       !.faults = <<>>])
           IN  /\ Len(result.apps) = Len(sound)
               /\ \A i \in 1..Len(sound) :
                      IF FaultOf(host, sound[i].name) = "none"
                      THEN result.apps[i] = sound[i]
                      ELSE /\ result.apps[i].name = sound[i].name
                           /\ result.apps[i].status = "UNKNOWN"

-----------------------------------------------------------------------------
(* config_set (SpecQuote): the assignment composed for a value, and the    *)
(* value the platform ends up with.                                        *)

MaxValueLen == 3

\* Characters a value is drawn from: a letter, a blank and the characters a
\* POSIX shell treats specially inside or outside quotes.
ValueAlphabet == {"a", " ", "'", "\"", "$", "\\"}

\* escaped_value = value.replace("'", "'\"'\"'")
EscapedValue(value) == Replace(value, "'", Chars("'\"'\"'"))

\* f"{key}='{escaped_value}'"
Assignment(key, value) == key \o <<"=", "'">> \o EscapedValue(value) \o <<"'">>

\* The command line config_set hands to run on the remote path.
ConfigSetCommand(app_name, key, value, restart) ==
    Chars("config:set") \o <<" ">> \o (IF restart THEN <<>> ELSE Chars("--no-restart"))
        \o <<" ">> \o app_name \o <<" ">> \o Assignment(key, value)

\* The argument list _config_set_docker hands to create_subprocess_exec.
ConfigSetArgv(app_name, key, value, restart) ==
    <<Chars("dokku"), Chars("config:set")>> \o (IF restart THEN <<>> ELSE <<Chars("--no-restart")>>)
        \o <<app_name, Assignment(key, value)>>

\* POSIX shell word parsing of a command line: quoting and field splitting.
\* The scanner state: mode is "plain", "single", "double", or "escape" /
\* "double-escape" right after a backslash; cur is the word being built, open
\* tells whether a word has started, words are the words completed.  An
\* unquoted or double-quoted $ starts an expansion, shown as "<$>".
ShellStart == [mode |-> "plain", cur |-> <<>>, open |-> FALSE, words |-> <<>>]

ShellStep(st, c) ==
    CASE st.mode = "single" ->
            IF c = "'" THEN [st EXCEPT !.mode = "plain"]
            ELSE [st EXCEPT !.cur = Append(@, c)]
      [] st.mode = "double" ->
            IF c = "\"" THEN [st EXCEPT !.mode = "plain"]
            ELSE IF c = "\\" THEN [st EXCEPT !.mode = "double-escape"]
            ELSE IF c = "$" THEN [st EXCEPT !.cur = Append(@, "<$>")]
            ELSE [st EXCEPT !.cur = Append(@, c)]
      [] st.mode = "double-escape" ->
            IF c \in {"$", "\"", "\\"}
            THEN [st EXCEPT !.mode = "double", !.cur = Append(@, c)]
            ELSE [st EXCEPT !.mode = "double", !.cur = @ \o <<"\\", c>>]
      [] st.mode = "escape" ->
            [st EXCEPT !.mode = "plain", !.cur = Append(@, c)]
      [] OTHER ->
            IF c \in Whitespace
            THEN [st EXCEPT !.cur = <<>>, !.open = FALSE,
                            !.words = IF st.open THEN Append(@, st.cur) ELSE @]
            ELSE IF c = "'" THEN [st EXCEPT !.mode = "single", !.open = TRUE]
            ELSE IF c = "\"" THEN [st EXCEPT !.mode = "double", !.open = TRUE]
            ELSE IF c = "\\" THEN [st EXCEPT !.mode = "escape", !.open = TRUE]
            ELSE IF c = "$" THEN [st EXCEPT !.cur = Append(@, "<$>"), !.open = TRUE]
            ELSE [st EXCEPT !.cur = Append(@, c), !.open = TRUE]

\* The scanner state after characters lo..hi of line, read in order from
\* state st (the range is halved to keep the evaluation shallow).
RECURSIVE ShellScan(_, _, _, _)
ShellScan(st, line, lo, hi) ==
    IF lo > hi THEN st
    ELSE IF lo = hi THEN ShellStep(st, line[lo])
    ELSE LET mid == (lo + hi) \div 2
             left == ShellScan(st, line, lo, mid)
         IN  IF left.mode = "" THEN left ELSE ShellScan(left, line, mid + 1, hi)

ShellWords(line) ==
    LET st == ShellScan(ShellStart, line, 1, Len(line))
    IN  IF st.open THEN Append(st.words, st.cur) ELSE st.words

\* The arguments the platform's config:set receives: the words the remote
\* shell makes of the command line, or the argument list as it stands.
ReceivedArgs(docker, app_name, key, value, restart) ==
    IF docker THEN Tail(ConfigSetArgv(app_name, key, value, restart))
    ELSE ShellWords(ConfigSetCommand(app_name, key, value, restart))

\* The command line config_unset hands to run on the remote path.
ConfigUnsetCommand(app_name, key, restart) ==
    Chars("config:unset") \o <<" ">> \o (IF restart THEN <<>> ELSE Chars("--no-restart"))
        \o <<" ">> \o app_name \o <<" ">> \o key

\* The calls: config_set with every value under one key; config_unset with
\* a key that is a name, or two names with a blank between them as the path
\* segment of the request can carry it.
ConfigSetCalls ==
    [op : {"config_set"}, app_name : {Chars("app")}, key : {Chars("KEY")},
     value : SeqsUpTo(ValueAlphabet, MaxValueLen), restart : BOOLEAN]
    \cup [op : {"config_unset"}, app_name : {Chars("app")},
          key : {Chars("KEY"), Chars("K Y")}, restart : BOOLEAN]

InitQuote ==
    /\ use_docker \in BOOLEAN
    /\ ReqIdle
    /\ host = NoHost
    /\ call \in ConfigSetCalls
    /\ result = NoResult

\* config_set sends the assignment on the selected path.
ConfigSetSend ==
    /\ call.op = "config_set"
    /\ result = NoResult
    /\ result' = [op |-> "sent",
                  args |-> ReceivedArgs(use_docker, call.app_name, call.key,
                                        call.value, call.restart)]
    /\ UNCHANGED <<use_docker, req_vars, host, call>>

\* The platform splits the last argument at its first "=" and stores the
\* value under the key.
PlatformStores ==
    /\ result.op = "sent"
    /\ LET kv == Partition(result.args[Len(result.args)], "=")
       IN  result' = [op |-> "stored", args |-> result.args,
                      key |-> kv[1], value |-> kv[2]]
    /\ UNCHANGED <<use_docker, req_vars, host, call>>

\* config_unset sends the key on the selected path: the words the remote
\* shell makes of the command line, or the argument list as it stands.
ConfigUnsetSend ==
    /\ call.op = "config_unset"
    /\ result = NoResult
    /\ result' = [op |-> "unset",
                  args |-> IF use_docker
                           THEN <<Chars("config:unset")>>
                                \o (IF call.restart THEN <<>> ELSE <<Chars("--no-restart")>>)
                                \o <<call.app_name, call.key>>
                           ELSE ShellWords(ConfigUnsetCommand(call.app_name, call.key,
                                                              call.restart))]
    /\ UNCHANGED <<use_docker, req_vars, host, call>>

NextQuote ==
    \/ ConfigSetSend
    \/ ConfigUnsetSend
    \/ PlatformStores

SpecQuote == InitQuote /\ [][NextQuote]_vars

\* C8: the value the platform stores is exactly the value given to
\* config_set, under the same key, on whichever path is selected.
C8_ValuePreserved ==
    result.op = "stored" => (result.key = call.key /\ result.value = call.value)

\* C30: on the remote path the command line of config_set and config_unset
\* always makes the same words: the command, the flag when restart is off,
\* the application name, and one word for the key or the assignment.
C30_WordStructureFixed ==
    (~use_docker /\ result.op \in {"sent", "unset"}) =>
        /\ Len(result.args) = (IF call.restart THEN 3 ELSE 4)
        /\ result.args[Len(result.args) - 1] = call.app_name
        /\ StartsWith(result.args[Len(result.args)], call.key)

-----------------------------------------------------------------------------
(* Claims checked under Spec *)

\* C1: every invocation a facade operation issues uses the channel chosen at
\* startup: only local processes when use_docker holds, only SSH when not.
C1_PathObeyed ==
    \A u \in used : u[2] = (IF use_docker THEN "local" ELSE "ssh")

\* C3: a remote command that timed out gave its caller the empty string and
\* did not raise, for run and for run_fast.
C3_TimeoutReturnsEmpty ==
    \A t \in Ops :
        (task[t].exit = "timeout" /\ task[t].ch \in {"run", "run_fast"})
            => (task[t].ret = "empty" /\ task[t].st # "raised")

\* A facade operation has sent an invocation.
Issued(t) == \E k \in {"local", "ssh"} : <<t, k>> \in used

\* The control command is over: it returned, or it timed out.
Settled(t) ==
    \/ task[t].st = "returned" /\ t \notin running_ext
    \/ task[t].exit = "timeout"

\* C4: in a lifecycle request, no re-resolution call has been issued unless
\* the control command has completed or timed out.
C4_ResolveAfterControl ==
    handler \in LifecycleHandlers =>
        \A t \in ResolveOps(handler) : Issued(t) => Settled(ControlOp(handler))

\* C4 witness: a restart whose command completed and whose re-resolution
\* is in flight.
C4_Witness ==
    /\ handler = "restart_app"
    /\ task["app_restart"].st = "returned"
    /\ task["app_info"].st = "awaiting"
    /\ Issued("get_app_ssl_status")

\* C5: once the consumer of a log stream is gone, the log process is not
\* running and the connection is not open.
C5_StreamReleased ==
    consumer = "gone" => (producer # "running" /\ conn # "open")

\* C6: a write request whose control command exited nonzero does not end
\* with a success result or a success message.
C6_FailureReported ==
    (handler \in LifecycleHandlers \cup ConfigWriteHandlers
        /\ task[ControlOp(handler)].exit = "nonzero")
        => (response.status # "ok" /\ response.message = "none")

\* C7: the application-detail request does not fail as a whole when one of
\* its seven sub-queries fails: once answered, the answer is a result.
C7_DetailIsolatesFailure ==
    (handler = "app_detail" /\ response # NoResponse
        /\ \E t \in DetailOps : task[t].st = "raised")
        => response.status = "ok"

\* C9: every facade operation other than the log stream, while it waits on
\* an external invocation, has a timeout armed, so that it returns even if
\* the invocation never responds.
C9_EveryCallBounded ==
    \A t \in Ops \ {"logs_stream"} :
        task[t].st = "awaiting" => TimeoutArmed(t)

====
